---- MODULE Spec2Model ----
(***************************************************************************)
(* Work-order extraction pipeline: rule extraction, gap detection, LLM     *)
(* gap-fill and merge (main.py, src/rule_extractor.py,                     *)
(* src/llm_fallback.py).                                                   *)
(*                                                                         *)
(* Python values are represented as follows.                               *)
(*  - A dict of string fields is a function over AllFields; a key that is  *)
(*    not in the dict maps to Absent.                                      *)
(*  - A JSON / Python value that can sit in a section is a record          *)
(*    [kind, d, l, s]: kind is "dict", "list", "str", "null" or "absent"   *)
(*    (key not present); d, l, s carry the dict, list or string.           *)
(*  - A work-order record (top-level dict) is a function over TopKeys.     *)
(***************************************************************************)
EXTENDS Integers, Sequences, FiniteSets

VARIABLES
  pc,        \* position of process_pdf
  useLlm,    \* config.USE_LLM_FALLBACK
  stages,    \* the stages process_pdf has run, in order
  rule,      \* the record returned by extract_workorder
  llm,       \* what the language-model call and the parse produced
  data,      \* process_pdf's local `data`
  rendered,  \* the record handed to save_to_excel
  err,       \* the exception that left process_pdf, "" when none
  llmCalls,  \* number of chat-completion calls made for the document
  pdf,       \* the document at pdf_path
  diResult,  \* process_pdf's local `result`, the AnalyzeResult
  gap,       \* what should_use_llm returned: "yes", "no", "" when not called
  text,      \* input of _extract_services: the matches found in full_text
  services,  \* result of _extract_services
  _last_two_col_headers,  \* the module global of src/pdf_extractor.py
  folder,    \* process_folder: the PDFs of the folder, in listing order
  attempts,  \* process_folder: the PDFs process_pdf was called on, in order
  results,   \* process_folder's local `results`
  runs,      \* two concurrent runs of extract_workorder
  arg,       \* argument of the function a function specification applies
  ret        \* what that function returned

batchVars == <<folder, attempts, results>>
fnVars == <<arg, ret>>
pipeVars == <<useLlm, stages, rule, llm, data, rendered, err, llmCalls, pdf, diResult, gap>>
svcVars == <<text, services>>

vars == <<pc, pipeVars, svcVars, _last_two_col_headers, batchVars, runs, fnVars>>

-----------------------------------------------------------------------------
(* Bounds of the model.                                                    *)

\* a document lacks at most this many of the spans the extractors look for
MaxMissing == 1
\* the LLM's JSON object has at most this many top-level keys
MaxLlmKeys == 2
\* tokens of a raw LLM response
MaxRaw == 4
\* matches (headers, long texts, rates) in a text given to _extract_services
MaxMatches == 4

-----------------------------------------------------------------------------
(* Field names.                                                            *)

_MANDATORY_HEADER_FIELDS ==
  {"Order Number", "Order Date", "Validity From", "Validity To",
   "Vendor Code", "Payment Terms"}

_MANDATORY_PRICING_FIELDS ==
  {"Diesel Component %", "Base HSD (INR/L)", "Gross Price (INR)"}

HeaderFields ==
  _MANDATORY_HEADER_FIELDS \cup
  {"Release Date", "Vendor Name", "GST Info", "Contact Email",
   "Order Ceiling Value (INR)"}

ItemRateKey == <<"Item 1 Rate", "Item 2 Rate", "Item 3 Rate", "Item 4 Rate", "Item 5 Rate">>
ItemUnitKey == <<"Item 1 Unit", "Item 2 Unit", "Item 3 Unit", "Item 4 Unit", "Item 5 Unit">>

PricingFields ==
  _MANDATORY_PRICING_FIELDS \cup
  {"HSD Reference Date", "HSD Source", "Order Ceiling Value (INR)",
   "Total Order Value (INR)"} \cup
  {ItemRateKey[i] : i \in DOMAIN ItemRateKey} \cup
  {ItemUnitKey[i] : i \in DOMAIN ItemUnitKey}

TextBlockFields ==
  {"Scope of Work", "Safety Norms", "Exit Clause", "Payment Terms Detail"}

MetaFields == {"pages", "paragraphs", "kv_pairs", "tables", "model", "extracted_at"}

\* a key the extraction schema does not know
UnknownKey == "Remarks"

AllFields ==
  HeaderFields \cup PricingFields \cup TextBlockFields \cup MetaFields \cup {UnknownKey}

TopKeys ==
  {"header", "services", "pricing", "text_blocks", "change_orders", "metadata", "notes"}

-----------------------------------------------------------------------------
(* Python / JSON values.                                                   *)

Absent == "<absent>"

NoDict == [k \in AllFields |-> Absent]

J(kind, d, l, s) == [kind |-> kind, d |-> d, l |-> l, s |-> s]
JAbsent  == J("absent", NoDict, <<>>, "")
JNull    == J("null", NoDict, <<>>, "")
JDict(d) == J("dict", d, <<>>, "")
JList(l) == J("list", NoDict, l, "")
JStr(s)  == J("str", NoDict, <<>>, s)

Keys(d) == {k \in DOMAIN d : d[k] # Absent}

\* truth value of a field: d.get(k) is None or "" when falsy
FieldTruthy(v) == v # Absent /\ v # ""

\* Python truth value of a section value (None when the key is absent)
Truthy(j) ==
  CASE j.kind = "dict" -> Keys(j.d) # {}
    [] j.kind = "list" -> Len(j.l) > 0
    [] j.kind = "str"  -> j.s # ""
    [] OTHER           -> FALSE

\* dict.get(key, default)
Get(rec, key, default) == IF rec[key].kind = "absent" THEN default ELSE rec[key]

NoRecord == [k \in TopKeys |-> JAbsent]

\* a parsed JSON document: an object (kind "dict", its members in secs) or
\* another JSON value (list, string, null)
Top(kind, secs) == [kind |-> kind, secs |-> secs]
NoTop == Top("none", NoRecord)

-----------------------------------------------------------------------------
(* src/llm_fallback.py                                                     *)

should_use_llm_NoServices(extracted_data) ==
  LET header   == Get(extracted_data, "header", JDict(NoDict))
      pricing  == Get(extracted_data, "pricing", JDict(NoDict))
      missing_header  == {f \in _MANDATORY_HEADER_FIELDS : ~FieldTruthy(header.d[f])}
      missing_pricing == {f \in _MANDATORY_PRICING_FIELDS : ~FieldTruthy(pricing.d[f])}
  IN  missing_header # {} \/ missing_pricing # {}

should_use_llm(extracted_data) ==
  LET header   == Get(extracted_data, "header", JDict(NoDict))
      pricing  == Get(extracted_data, "pricing", JDict(NoDict))
      services_ == Get(extracted_data, "services", JList(<<>>))
      missing_header  == {f \in _MANDATORY_HEADER_FIELDS : ~FieldTruthy(header.d[f])}
      missing_pricing == {f \in _MANDATORY_PRICING_FIELDS : ~FieldTruthy(pricing.d[f])}
  IN  IF missing_header # {} \/ missing_pricing # {}
        THEN TRUE
        ELSE IF ~Truthy(services_) THEN TRUE ELSE FALSE

(* A raw response is a sequence of tokens: fence is a Markdown code fence  *)
(* on a line of its own, x is prose, the two braces, m is the member list  *)
(* of the JSON object of the response, v is a JSON value that is not an    *)
(* object.                                                                 *)
Tokens == {"fence", "x", "{", "}", "m", "v"}

Find(s, t)  == IF \E i \in DOMAIN s : s[i] = t
                 THEN CHOOSE i \in DOMAIN s : s[i] = t /\ \A j \in 1..(i-1) : s[j] # t
                 ELSE 0
RFind(s, t) == IF \E i \in DOMAIN s : s[i] = t
                 THEN CHOOSE i \in DOMAIN s : s[i] = t /\ \A j \in (i+1)..Len(s) : s[j] # t
                 ELSE 0

IsFence(t) == t = "fence"
NotFence(t) == ~IsFence(t)

\* json.loads: which JSON document the token sequence is, "fail" when none
JsonShape(s) ==
  IF s = <<"{", "m", "}">> THEN "object"
  ELSE IF s = <<"{", "}">> THEN "empty"
  ELSE IF s = <<"v">> THEN "value"
  ELSE "fail"

\* ok: whether _parse_llm_json returns; path: the attempt that gave the
\* result ("direct", "substring"), or the exception raised; shape: the JSON
\* document parsed.  start and end are 1-based: end is rfind, that is
\* rfind + 1 of the code as an exclusive bound.
_parse_llm_json(raw) ==
  LET s     == SelectSeq(raw, NotFence)
      start == Find(s, "{")
      end   == RFind(s, "}")
  IN  IF JsonShape(s) # "fail"
        THEN [ok |-> TRUE, path |-> "direct", shape |-> JsonShape(s)]
      ELSE IF start # 0 /\ end + 1 > start
        THEN IF JsonShape(SubSeq(s, start, end)) # "fail"
               THEN [ok |-> TRUE, path |-> "substring",
                     shape |-> JsonShape(SubSeq(s, start, end))]
               ELSE [ok |-> FALSE, path |-> "JSONDecodeError", shape |-> "fail"]
      ELSE [ok |-> FALSE, path |-> "ValueError", shape |-> "fail"]

\* the value json.loads returns for a response whose object is obj and whose
\* non-object value is other
Parsed(shape, obj, other) ==
  CASE shape = "object" -> Top("dict", obj)
    [] shape = "empty"  -> Top("dict", NoRecord)
    [] shape = "value"  -> other
    [] OTHER            -> NoTop

_merge_LlmWins(rule_data, llm_data, key) ==
  LET rule_section == Get(rule_data, key, JDict(NoDict))
      llm_section  == Get(llm_data, key, JDict(NoDict))
  IN  IF llm_section.kind # "dict"
        THEN rule_section
        ELSE JDict([k \in AllFields |->
                     IF FieldTruthy(llm_section.d[k]) THEN llm_section.d[k]
                     ELSE rule_section.d[k]])

_merge(rule_data, llm_data, key) ==
  LET rule_section == Get(rule_data, key, JDict(NoDict))
      llm_section  == Get(llm_data, key, JDict(NoDict))
  IN  IF llm_section.kind # "dict"
        THEN rule_section
        ELSE JDict([k \in AllFields |->
                     IF FieldTruthy(rule_section.d[k]) THEN rule_section.d[k]
                     ELSE llm_section.d[k]])

\* lines 143-147, llm_tb a dict
MergedTextBlocks_LlmWins(existing_data, llm_output) ==
  LET llm_tb  == llm_output["text_blocks"]
      rule_tb == Get(existing_data, "text_blocks", JDict(NoDict))
  IN  IF Truthy(llm_tb)
        THEN JDict([f \in AllFields |->
                     IF FieldTruthy(llm_tb.d[f]) THEN llm_tb.d[f] ELSE rule_tb.d[f]])
        ELSE existing_data["text_blocks"]

MergedTextBlocks(existing_data, llm_output) ==
  LET llm_tb  == llm_output["text_blocks"]
      rule_tb == Get(existing_data, "text_blocks", JDict(NoDict))
  IN  IF Truthy(llm_tb)
        THEN JDict([f \in AllFields |->
                     IF FieldTruthy(rule_tb.d[f]) THEN rule_tb.d[f] ELSE llm_tb.d[f]])
        ELSE existing_data["text_blocks"]

\* lines 149-151
MergedServices(existing_data, llm_output) ==
  IF ~Truthy(existing_data["services"]) /\ Truthy(llm_output["services"])
    THEN llm_output["services"]
    ELSE existing_data["services"]

\* lines 153-159
MergedChangeOrders_Concat(existing_data, llm_output) ==
  LET rule_co == Get(existing_data, "change_orders", JList(<<>>))
      llm_co  == Get(llm_output, "change_orders", JList(<<>>))
  IN  IF llm_co.kind = "list" THEN JList(rule_co.l \o llm_co.l) ELSE rule_co

MergedChangeOrders(existing_data, llm_output) ==
  LET rule_co == Get(existing_data, "change_orders", JList(<<>>))
      llm_co  == Get(llm_output, "change_orders", JList(<<>>))
  IN  IF Truthy(rule_co) THEN rule_co
      ELSE IF Truthy(llm_co) THEN llm_co
      ELSE existing_data["change_orders"]

\* line 139: merged = dict(existing_data), for the keys not assigned later
KeptSection_Update(existing_data, llm_output, k) ==
  IF llm_output[k].kind # "absent" THEN llm_output[k] ELSE existing_data[k]

KeptSection(existing_data, llm_output, k) == existing_data[k]

\* lines 138-161, for a parsed llm_output that is an object
MergeSections(existing_data, llm_output) ==
  [k \in TopKeys |->
    CASE k = "header"        -> _merge(existing_data, llm_output, "header")
      [] k = "pricing"       -> _merge(existing_data, llm_output, "pricing")
      [] k = "text_blocks"   -> MergedTextBlocks(existing_data, llm_output)
      [] k = "services"      -> MergedServices(existing_data, llm_output)
      [] k = "change_orders" -> MergedChangeOrders(existing_data, llm_output)
      [] OTHER               -> KeptSection(existing_data, llm_output, k)]

\* status: how the call and the parse ended; why: the exception of a failed
\* parse; out: the parsed llm_output
Returns(rec, status, why, out) ==
  [exc |-> "", rec |-> rec, llm |-> [status |-> status, why |-> why, out |-> out]]
Raises(exc, out) ==
  [exc |-> exc, rec |-> NoRecord, llm |-> [status |-> "parsed", why |-> "", out |-> out]]

(* resp is the answer of the service: throws when the call (or reading its *)
(* content) raises, else the raw text with the JSON object or value it     *)
(* denotes.                                                                *)
enhance_with_llm_NoExcept(existing_data, resp) ==
  LET p          == _parse_llm_json(resp.raw)
      llm_output == Parsed(p.shape, resp.obj, resp.other)
  IN  IF resp.throws
        THEN [exc |-> "APIError", rec |-> NoRecord,
              llm |-> [status |-> "call_failed", why |-> "", out |-> NoTop]]
      ELSE IF ~p.ok
        THEN [exc |-> p.path, rec |-> NoRecord,
              llm |-> [status |-> "parse_failed", why |-> p.path, out |-> NoTop]]
      ELSE IF llm_output.kind # "dict"
        THEN Raises("AttributeError", llm_output)
      ELSE IF Truthy(llm_output.secs["text_blocks"])
              /\ llm_output.secs["text_blocks"].kind # "dict"
        THEN Raises("TypeError", llm_output)
      ELSE Returns(MergeSections(existing_data, llm_output.secs), "parsed", "", llm_output)

enhance_with_llm(existing_data, resp) ==
  LET p          == _parse_llm_json(resp.raw)
      llm_output == Parsed(p.shape, resp.obj, resp.other)
  IN  IF resp.throws
        THEN Returns(existing_data, "call_failed", "", NoTop)
      ELSE IF ~p.ok
        THEN Returns(existing_data, "parse_failed", p.path, NoTop)
      ELSE IF llm_output.kind # "dict"
        \* llm_data.get in _merge: a list, str or None has no .get
        THEN Raises("AttributeError", llm_output)
      ELSE IF Truthy(llm_output.secs["text_blocks"])
              /\ llm_output.secs["text_blocks"].kind # "dict"
        \* {**llm_tb, ...} with llm_tb a non-empty str or list
        THEN Raises("TypeError", llm_output)
      ELSE Returns(MergeSections(existing_data, llm_output.secs), "parsed", "", llm_output)

-----------------------------------------------------------------------------
(* src/rule_extractor.py                                                   *)
(*                                                                         *)
(* The text of a document is represented by what the regular expressions   *)
(* of the extractors find in it: find[p] is the capture of pattern p ("",  *)
(* when it does not match), matches is the sequence of line-item header,   *)
(* long-text and rate matches in the order of their start offsets.         *)

PyOr_LastWins(a, b) == IF FieldTruthy(b) THEN b ELSE a

\* a or b
PyOr(a, b) == IF FieldTruthy(a) THEN a ELSE b

\* kw in k, for the keywords _extract_header asks for and the keys of the
\* key/value pairs of the model
KeyHas ==
  {<<"order no", "order no.">>, <<"order number", "order number">>,
   <<"contract number", "contract number">>,
   <<"order date", "order date">>, <<"release date", "release date">>,
   <<"vendor code", "vendor code">>, <<"vendor name", "vendor name">>,
   <<"payment", "payment terms">>}

KvKeys == {p[2] : p \in KeyHas}

\* result.key_value_pairs: pairs [key, value], empty content as ""
_build_kvp_map(pairs) ==
  LET ok(i)    == pairs[i].key # "" /\ pairs[i].value # ""
      first(i) == ok(i) /\ \A j \in 1..(i-1) : ~(ok(j) /\ pairs[j].key = pairs[i].key)
      last(k)  == CHOOSE i \in DOMAIN pairs :
                    ok(i) /\ pairs[i].key = k
                    /\ \A j \in (i+1)..Len(pairs) : ~(ok(j) /\ pairs[j].key = k)
      F[i \in 0..Len(pairs)] ==
        IF i = 0 THEN <<>>
        ELSE IF first(i)
          THEN Append(F[i-1], [key |-> pairs[i].key, value |-> pairs[last(pairs[i].key)].value])
          ELSE F[i-1]
  IN  F[Len(pairs)]

_kvp_get(kvps, keywords) ==
  LET hit(i) == \E kw \in keywords : <<kw, kvps[i].key>> \in KeyHas
  IN  IF \E i \in DOMAIN kvps : hit(i)
        THEN kvps[CHOOSE i \in DOMAIN kvps : hit(i) /\ \A j \in 1..(i-1) : ~hit(j)].value
        ELSE ""

\* the patterns of _extract_header, _extract_pricing and _extract_text_blocks
Patterns ==
  {"order_no", "order_date", "release_date", "valid_from", "valid_to",
   "vendor_code", "vendor_name", "payment_terms", "gst", "email",
   "ceiling_inr", "ceiling",
   "diesel", "base_hsd", "hsd_date", "hsd_source", "gross", "total_order",
   "scope", "safety", "safety_sents", "exit_section", "exit_clause",
   "exit_liberty", "payment_detail"}

_extract_header(two_col, kvps, find) ==
  LET h == [k \in AllFields |->
        CASE k = "Order Number" ->
               PyOr(two_col[k],
                 PyOr(_kvp_get(kvps, {"order no", "contract number", "order number"}),
                      find["order_no"]))
          [] k = "Order Date" ->
               PyOr(two_col[k], PyOr(_kvp_get(kvps, {"order date"}), find["order_date"]))
          [] k = "Release Date" ->
               PyOr(two_col[k], PyOr(_kvp_get(kvps, {"release date"}), find["release_date"]))
          [] k = "Validity From" ->
               IF find["valid_from"] # "" THEN find["valid_from"] ELSE Absent
          [] k = "Validity To" ->
               IF find["valid_from"] # "" THEN find["valid_to"] ELSE Absent
          [] k = "Vendor Code" ->
               PyOr(_kvp_get(kvps, {"vendor code"}), find["vendor_code"])
          [] k = "Vendor Name" ->
               PyOr(_kvp_get(kvps, {"vendor name"}), find["vendor_name"])
          [] k = "Payment Terms" ->
               PyOr(_kvp_get(kvps, {"payment"}), find["payment_terms"])
          [] k = "GST Info" -> find["gst"]
          [] k = "Contact Email" -> PyOr(two_col[k], find["email"])
          [] k = "Order Ceiling Value (INR)" -> PyOr(find["ceiling_inr"], find["ceiling"])
          [] OTHER -> Absent]
  IN  [k \in AllFields |-> IF FieldTruthy(h[k]) THEN h[k] ELSE Absent]

(* _extract_services.  A match is [kind, srv, wide, noise]: kind "hdr" (a  *)
(* line-item header with service number srv), "long" (a Service Long Text  *)
(* block; noise when none of its segments survives the filter, so that its *)
(* text is empty) or "rate" (a Total Price).  The match at position i      *)
(* starts at offset Start(i); the texts it captures are named after i.     *)
(* A header match ends before the next match starts, except a wide one,    *)
(* whose description runs into the phrase that starts the next match.      *)
Start(i) == 10 * i
HdrEnd(m, i) == IF m[i].wide THEN Start(i) + 15 ELSE Start(i) + 5
TextLen(m) == Start(Len(m) + 1)

PosStr  == <<"1", "2", "3", "4", "5", "6">>
BriefAt == <<"TRANSPORTATION 1", "TRANSPORTATION 2", "TRANSPORTATION 3",
             "TRANSPORTATION 4", "TRANSPORTATION 5", "TRANSPORTATION 6">>
LongAt  == <<"long text 1", "long text 2", "long text 3", "long text 4",
             "long text 5", "long text 6">>
RateAt  == <<"101.00", "102.00", "103.00", "104.00", "105.00", "106.00">>
UnitAt  == <<"Ton 1", "Ton 2", "Ton 3", "Ton 4", "Ton 5", "Ton 6">>

Indices(m, kind) == {i \in DOMAIN m : m[i].kind = kind}

\* the first element of the set of positions S, 0 when S is empty
First(S) == IF S = {} THEN 0 ELSE CHOOSE i \in S : \A j \in S : i <= j

\* the windows of the headers that survive line 163
ServiceOf_KeptWindows(m, i) ==
  LET hdr_end  == HdrEnd(m, i)
      later    == {j \in Indices(m, "hdr") : j > i /\ m[j].srv # m[i].srv}
      next_hdr == IF later # {} THEN Start(First(later)) ELSE TextLen(m)
      lt == First({j \in Indices(m, "long") : hdr_end <= Start(j) /\ Start(j) < next_hdr})
      r  == First({j \in Indices(m, "rate") : hdr_end <= Start(j) /\ Start(j) < next_hdr})
  IN  [SrNo |-> PosStr[i], SrvLnNo |-> "10", SrvNo |-> m[i].srv,
       Brief |-> BriefAt[i],
       LongText |-> IF lt = 0 \/ m[lt].noise THEN "" ELSE LongAt[lt],
       Rate |-> IF r = 0 THEN "" ELSE RateAt[r],
       Unit |-> IF r = 0 THEN "" ELSE UnitAt[r]]

\* lines 119-160: the service line built from the header match at position i
ServiceOf(m, i) ==
  LET hdr_end  == HdrEnd(m, i)
      later    == {j \in Indices(m, "hdr") : j > i}
      next_hdr == IF later # {} THEN Start(First(later)) ELSE TextLen(m)
      lt == First({j \in Indices(m, "long") : hdr_end <= Start(j) /\ Start(j) < next_hdr})
      r  == First({j \in Indices(m, "rate") : hdr_end <= Start(j) /\ Start(j) < next_hdr})
  IN  [SrNo |-> PosStr[i], SrvLnNo |-> "10", SrvNo |-> m[i].srv,
       Brief |-> BriefAt[i],
       LongText |-> IF lt = 0 \/ m[lt].noise THEN "" ELSE LongAt[lt],
       Rate |-> IF r = 0 THEN "" ELSE RateAt[r],
       Unit |-> IF r = 0 THEN "" ELSE UnitAt[r]]

\* line 163: keep an entry unless its SrvNo was seen in an earlier entry
DedupBySrvNo_KeepLast(svcs) ==
  LET F[i \in 0..Len(svcs)] ==
        IF i = 0 THEN <<>>
        ELSE IF \E j \in (i+1)..Len(svcs) : svcs[j].SrvNo = svcs[i].SrvNo
          THEN F[i-1]
          ELSE Append(F[i-1], svcs[i])
  IN  F[Len(svcs)]

DedupBySrvNo(svcs) ==
  LET F[i \in 0..Len(svcs)] ==
        IF i = 0 THEN <<>>
        ELSE IF \E j \in 1..(i-1) : svcs[j].SrvNo = svcs[i].SrvNo
          THEN F[i-1]
          ELSE Append(F[i-1], svcs[i])
  IN  F[Len(svcs)]

\* lines 118-160: one entry per header match, in document order
AllServices(m) ==
  LET F[i \in 0..Len(m)] ==
        IF i = 0 THEN <<>>
        ELSE IF m[i].kind = "hdr" THEN Append(F[i-1], ServiceOf(m, i))
        ELSE F[i-1]
  IN  F[Len(m)]

_extract_services(m) ==
  IF Indices(m, "hdr") = {} THEN <<>> ELSE DedupBySrvNo(AllServices(m))

_extract_pricing(find, m) ==
  LET rates == Indices(m, "rate")
      nth(i) == CHOOSE j \in rates : Cardinality({q \in rates : q <= j}) = i
      p == [k \in AllFields |->
        CASE k = "Diesel Component %" -> find["diesel"]
          [] k = "Base HSD (INR/L)" ->
               IF find["base_hsd"] # "" THEN find["base_hsd"] ELSE Absent
          [] k = "HSD Reference Date" ->
               IF find["base_hsd"] # "" THEN find["hsd_date"] ELSE Absent
          [] k = "HSD Source" -> find["hsd_source"]
          [] k = "Gross Price (INR)" -> find["gross"]
          [] k = "Order Ceiling Value (INR)" -> PyOr(find["ceiling_inr"], find["ceiling"])
          [] k = "Total Order Value (INR)" -> find["total_order"]
          [] \E i \in 1..Cardinality(rates) : k = ItemRateKey[i] ->
               RateAt[nth(CHOOSE i \in 1..Cardinality(rates) : k = ItemRateKey[i])]
          [] \E i \in 1..Cardinality(rates) : k = ItemUnitKey[i] ->
               UnitAt[nth(CHOOSE i \in 1..Cardinality(rates) : k = ItemUnitKey[i])]
          [] OTHER -> Absent]
  IN  [k \in AllFields |-> IF FieldTruthy(p[k]) THEN p[k] ELSE Absent]

ExitClauseOf_NoSentinel(find) ==
  IF find["exit_section"] # "" THEN find["exit_section"]
  ELSE IF find["exit_clause"] # "" THEN find["exit_clause"]
  ELSE find["exit_liberty"]

\* lines 230-241
ExitClauseOf(find) ==
  IF find["exit_section"] # "" THEN find["exit_section"]
  ELSE IF find["exit_clause"] # "" THEN find["exit_clause"]
  ELSE PyOr(find["exit_liberty"], "Not found")

_extract_text_blocks(find) ==
  LET blocks == [k \in AllFields |->
        CASE k = "Scope of Work" ->
               IF find["scope"] # "" THEN find["scope"] ELSE Absent
          [] k = "Safety Norms" ->
               IF find["safety"] # "" THEN find["safety"]
               ELSE IF find["safety_sents"] # "" THEN find["safety_sents"]
               ELSE Absent
          [] k = "Exit Clause" -> ExitClauseOf(find)
          [] k = "Payment Terms Detail" ->
               IF find["payment_detail"] # "" THEN find["payment_detail"] ELSE Absent
          [] OTHER -> Absent]
  IN  [k \in AllFields |-> IF FieldTruthy(blocks[k]) THEN blocks[k] ELSE Absent]

(* _extract_change_orders.  A block of the split is [date, sep, phrases]:  *)
(* the C/O date ("" when the block has none), whether a run of = signs      *)
(* starts a description in it, and the phrases of the text after the run.  *)
(* A phrase is [text, ext, ceil, till, from_to, by_rs, any]: its words,    *)
(* whether the patterns of lines 277 and 278 match in it, and what the     *)
(* patterns of lines 281, 283, 284 and 285 capture in it.                  *)
Phrase(t, e, c, till, from_to, by_rs, any) ==
  [text |-> t, ext |-> e, ceil |-> c, till |-> till, from_to |-> from_to,
   by_rs |-> by_rs, any |-> any]

ValidityPhrase ==
  Phrase("validity extended till 31.03.2026", TRUE, FALSE, "31.03.2026", "", "", "")
CeilingPhrase == Phrase("ceiling increased", FALSE, TRUE, "", "", "", "")
FromToPhrase  == Phrase("from 1.2 CR to 1.5 CR", FALSE, FALSE, "", "1.5 CR", "", "1.2 CR")

Phrases ==
  {ValidityPhrase, CeilingPhrase, FromToPhrase,
   Phrase("extended till 30.06.2026", TRUE, FALSE, "30.06.2026", "", "", ""),
   Phrase("value", FALSE, TRUE, "", "", "", ""),
   Phrase("by Rs. 20 Lakhs", FALSE, FALSE, "", "", "20 Lakh", "20 Lakh"),
   Phrase("3 Lakhs", FALSE, FALSE, "", "", "", "3 Lakh"),
   Phrase("extension granted", FALSE, FALSE, "", "", "", ""),
   Phrase("rates revised", FALSE, FALSE, "", "", "", "")}

\* lines 265-274: the description, its phrases joined by single spaces
Desc(b) ==
  LET F[i \in 0..Len(b.phrases)] ==
        IF i = 0 THEN ""
        ELSE IF i = 1 THEN b.phrases[1].text
        ELSE F[i-1] \o " " \o b.phrases[i].text
  IN  IF b.sep THEN F[Len(b.phrases)] ELSE ""

\* re.search(pattern, desc) for the pattern of feature f
SearchDesc(b, f) == b.sep /\ \E i \in DOMAIN b.phrases : b.phrases[i][f]

\* _find(pattern, desc): the capture of the first match
FindDesc(b, f) ==
  LET hits == {i \in DOMAIN b.phrases : b.phrases[i][f] # ""}
  IN  IF b.sep /\ hits # {} THEN b.phrases[First(hits)][f] ELSE ""

atype_CeilingFirst(b) ==
  IF SearchDesc(b, "ceil") THEN "Ceiling Value Change"
  ELSE IF SearchDesc(b, "ext") THEN "Validity Extension"
  ELSE "Amendment"

\* lines 276-280
atype(b) ==
  IF SearchDesc(b, "ext") THEN "Validity Extension"
  ELSE IF SearchDesc(b, "ceil") THEN "Ceiling Value Change"
  ELSE "Amendment"

\* lines 282-286
ceil_chng(b) ==
  PyOr(FindDesc(b, "from_to"), PyOr(FindDesc(b, "by_rs"), FindDesc(b, "any")))

ChangeOrderOf(b) ==
  [Date |-> b.date,
   AmendmentType |-> atype(b),
   Description |-> Desc(b), NewValidity |-> FindDesc(b, "till"),
   CeilingChange |-> ceil_chng(b)]

_extract_change_orders(blocks) ==
  LET F[i \in 0..Len(blocks)] ==
        IF i = 0 THEN <<>>
        ELSE IF blocks[i].date = "" THEN F[i-1]
        ELSE Append(F[i-1], ChangeOrderOf(blocks[i]))
  IN  F[Len(blocks)]

NumStr(n) == IF n = 0 THEN "0" ELSE PosStr[n]

\* result is the AnalyzeResult: its key/value pairs and its counts
Metadata(result) ==
  [k \in AllFields |->
    CASE k = "pages"        -> NumStr(result.pages)
      [] k = "paragraphs"   -> NumStr(result.paragraphs)
      [] k = "kv_pairs"     -> NumStr(Len(result.key_value_pairs))
      [] k = "tables"       -> NumStr(result.tables)
      [] k = "model"        -> "prebuilt-layout"
      [] k = "extracted_at" -> result.now
      [] OTHER -> Absent]

\* doc is what extract_text_from_pdf yields for the file: the page-1
\* two-column fields and the text
extract_workorder(result, doc) ==
  LET kvps == _build_kvp_map(result.key_value_pairs)
  IN  [k \in TopKeys |->
        CASE k = "header"        -> JDict(_extract_header(doc.two_col, kvps, doc.find))
          [] k = "services"      -> JList(_extract_services(doc.matches))
          [] k = "pricing"       -> JDict(_extract_pricing(doc.find, doc.matches))
          [] k = "text_blocks"   -> JDict(_extract_text_blocks(doc.find))
          [] k = "change_orders" -> JList(_extract_change_orders(doc.blocks))
          [] k = "metadata"      -> JDict(Metadata(result))
          [] OTHER -> JAbsent]

-----------------------------------------------------------------------------
(* The documents and the LLM answers the pipeline is run on.               *)

\* the parts a document may lack
Units ==
  {"Order Number", "Validity", "Vendor Code", "Gross Price", "Services",
   "Vendor Name"}

\* the patterns, two-column labels and key/value keys that find a part
UnitPatterns(u) ==
  CASE u = "Order Number"  -> {"order_no"}
    [] u = "Validity"      -> {"valid_from", "valid_to"}
    [] u = "Vendor Code"   -> {"vendor_code"}
    [] u = "Vendor Name"   -> {"vendor_name"}
    [] u = "Gross Price"   -> {"gross"}
    [] OTHER               -> {}

UnitTwoCol(u) ==
  CASE u = "Order Number" -> {"Order Number"}
    [] OTHER              -> {}

UnitKv(u) ==
  CASE u = "Order Number"  -> {"order no."}
    [] u = "Vendor Code"   -> {"vendor code"}
    [] OTHER               -> {}

UnionOf(f(_), S) == UNION {f(u) : u \in S}

\* one service block: header, long text, total price
ServiceBlock ==
  <<[kind |-> "hdr", srv |-> "MS1", wide |-> FALSE, noise |-> FALSE],
    [kind |-> "long", srv |-> "", wide |-> FALSE, noise |-> FALSE],
    [kind |-> "rate", srv |-> "", wide |-> FALSE, noise |-> FALSE]>>

CoBlock ==
  [date |-> "01.02.2025", sep |-> TRUE, phrases |-> <<ValidityPhrase>>]

\* a document that has every part but those of lacking, with nco change
\* orders
MkDoc(lacking, nco) ==
  [exists  |-> TRUE,
   two_col |-> [k \in AllFields |->
                 IF k \in {"Order Number", "Order Date", "Contact Email"}
                      \ UnionOf(UnitTwoCol, lacking)
                   THEN "T" ELSE Absent],
   key_value_pairs |->
     SelectSeq(<<[key |-> "order no.", value |-> "K"],
                 [key |-> "vendor code", value |-> "K"],
                 [key |-> "payment terms", value |-> "K"]>>,
               LAMBDA kv : kv.key \notin UnionOf(UnitKv, lacking)),
   find    |-> [p \in Patterns |->
                 IF p \in UnionOf(UnitPatterns, lacking) \/ p = "safety_sents"
                   THEN "" ELSE "P"],
   matches |-> IF "Services" \in lacking THEN <<>> ELSE ServiceBlock,
   blocks  |-> IF nco = 0 THEN <<>> ELSE <<CoBlock>>]

Docs ==
  {MkDoc(lacking, nco) :
     lacking \in {L \in SUBSET Units : Cardinality(L) <= MaxMissing},
     nco \in {0, 1}}

\* a path that is not a file
MissingDoc == [MkDoc({}, 0) EXCEPT !.exists = FALSE]

\* what analyze_pdf returns for the document
ResultOf(d) ==
  [key_value_pairs |-> d.key_value_pairs, pages |-> 2, paragraphs |-> 3,
   tables |-> 1, now |-> "2026-01-01T00:00:00"]

NoResult == [key_value_pairs |-> <<>>, pages |-> 0, paragraphs |-> 0,
             tables |-> 0, now |-> ""]

LlmDicts(key1, key2) ==
  {[k \in AllFields |-> IF k = key1 THEN a ELSE IF k = key2 THEN b ELSE Absent] :
     a \in {Absent, "", "L"}, b \in {Absent, "L"}}

NonDicts == {JStr("n/a"), JNull}

LlmService ==
  [SrNo |-> "1", SrvLnNo |-> "10", SrvNo |-> "MS-LLM", Brief |-> "L",
   LongText |-> "L", Rate |-> "L", Unit |-> "L"]

LlmChangeOrder ==
  [Date |-> "L", AmendmentType |-> "Amendment", Description |-> "L",
   NewValidity |-> "", CeilingChange |-> ""]

\* the values the LLM may give a top-level key
SectionChoices(k) ==
  CASE k = "header"  -> {JDict(d) : d \in LlmDicts("Order Number", UnknownKey)} \cup NonDicts
    [] k = "pricing" -> {JDict(d) : d \in LlmDicts("Gross Price (INR)", UnknownKey)} \cup NonDicts
    [] k = "text_blocks" ->
         {JDict(d) : d \in LlmDicts("Exit Clause", UnknownKey)} \cup NonDicts
    [] k = "services" -> {JList(<<>>), JList(<<LlmService>>), JNull, JStr("n/a")}
    [] k = "change_orders" -> {JList(<<>>), JList(<<LlmChangeOrder>>), JNull}
    [] k = "metadata" -> {JDict([f \in AllFields |-> IF f = "pages" THEN "L" ELSE Absent])}
    [] OTHER -> {JStr("n/a")}

TopKeySeq ==
  <<"header", "pricing", "text_blocks", "services", "change_orders", "metadata", "notes">>

NumKeys(o) == Cardinality({k \in TopKeys : o[k].kind # "absent"})

\* the JSON objects with at most MaxLlmKeys top-level keys
LlmObjects ==
  LET F[i \in 0..Len(TopKeySeq)] ==
        IF i = 0 THEN {NoRecord}
        ELSE F[i-1] \cup
             {[o EXCEPT ![TopKeySeq[i]] = c] :
                o \in {q \in F[i-1] : NumKeys(q) < MaxLlmKeys},
                c \in SectionChoices(TopKeySeq[i])}
  IN  F[Len(TopKeySeq)]

\* JSON documents that are not objects
LlmValues == {Top("list", NoRecord), Top("str", NoRecord), Top("null", NoRecord)}

RawTexts == UNION {[1..n -> Tokens] : n \in 0..MaxRaw}

\* the answers of the service: the call raises, or returns raw text that
\* denotes (where it parses) the object obj or the value other
Responses(raw) ==
  LET shape == _parse_llm_json(raw).shape
  IN  {[throws |-> FALSE, raw |-> raw, obj |-> o, other |-> v] :
         o \in IF shape = "object" THEN LlmObjects ELSE {NoRecord},
         v \in IF shape = "value" THEN LlmValues ELSE {NoTop}}

\* one raw text for each way _parse_llm_json can end
RawClasses ==
  LET outcome(raw) == _parse_llm_json(raw)
  IN  {CHOOSE raw \in RawTexts : outcome(raw) = o : o \in {outcome(raw) : raw \in RawTexts}}

Thrown == [throws |-> TRUE, raw |-> <<>>, obj |-> NoRecord, other |-> NoTop]

-----------------------------------------------------------------------------
(* main.py: process_pdf, one document.                                     *)

NoLlm == [status |-> "not_called", why |-> "", out |-> NoTop]

\* the variables of the parts of the program a specification does not run
BatchIdle == folder = <<>> /\ attempts = <<>> /\ results = <<>>
RunsIdle == runs = <<>>
FnIdle == arg = <<>> /\ ret = <<>>
SvcIdle == text = <<>> /\ services = <<>>

Init ==
  /\ pc = "start"
  /\ useLlm \in BOOLEAN
  /\ pdf \in Docs \cup {MissingDoc}
  /\ stages = <<>>
  /\ diResult = NoResult
  /\ rule = NoRecord
  /\ data = NoRecord
  /\ llm = NoLlm
  /\ gap = ""
  /\ rendered = NoRecord
  /\ err = ""
  /\ llmCalls = 0
  /\ text = <<>>
  /\ services = <<>>
  /\ _last_two_col_headers = NoDict
  /\ BatchIdle
  /\ RunsIdle
  /\ FnIdle

\* lines 220-221: os.path.isfile, FileNotFoundError when it is false
CheckFile ==
  /\ pc = "start"
  /\ IF pdf.exists
       THEN pc' = "step1" /\ err' = err
       ELSE pc' = "failed" /\ err' = "FileNotFoundError"
  /\ UNCHANGED <<useLlm, stages, rule, llm, data, rendered, llmCalls, pdf,
                 diResult, gap, text, services,
                 _last_two_col_headers, batchVars, runs, fnVars>>

\* src/azure_di.py: call_ok is whether begin_analyze_document and
\* poller.result() of the provider succeed
analyze_pdf_Swallow(d, call_ok) ==
  IF ~d.exists THEN [exc |-> "FileNotFoundError", result |-> NoResult]
  ELSE IF call_ok THEN [exc |-> "", result |-> ResultOf(d)]
  ELSE [exc |-> "", result |-> NoResult]

analyze_pdf(d, call_ok) ==
  IF ~d.exists THEN [exc |-> "FileNotFoundError", result |-> NoResult]
  ELSE IF call_ok THEN [exc |-> "", result |-> ResultOf(d)]
  ELSE [exc |-> "RuntimeError", result |-> NoResult]

\* line 224: analyze_pdf returns the result, or raises
AnalyzePdf ==
  /\ pc = "step1"
  /\ stages' = Append(stages, "layout")
  /\ \E call_ok \in BOOLEAN :
       LET a == analyze_pdf(pdf, call_ok)
       IN  IF a.exc = ""
             THEN /\ diResult' = a.result
                  /\ pc' = "step2"
                  /\ err' = err
             ELSE /\ diResult' = diResult
                  /\ pc' = "failed"
                  /\ err' = a.exc
  /\ UNCHANGED <<useLlm, rule, llm, data, rendered, llmCalls, pdf, gap, text, services,
                 _last_two_col_headers, batchVars, runs, fnVars>>

\* line 227
ExtractWorkorder ==
  /\ pc = "step2"
  /\ stages' = Append(stages, "rules")
  /\ rule' = extract_workorder(diResult, pdf)
  /\ data' = rule'
  \* extract_text_from_pdf, called by extract_workorder, sets the global
  /\ _last_two_col_headers' = pdf.two_col
  /\ pc' = "step3"
  /\ UNCHANGED <<useLlm, llm, rendered, err, llmCalls, pdf, diResult, gap, text, services,
                 batchVars, runs, fnVars>>

\* lines 229-231: whether process_pdf goes on to the LLM
NeedsLlm_NoGapCheck(enabled, record) == enabled

NeedsLlm(enabled, record) == enabled /\ should_use_llm(record)

\* lines 237-238
LlmDisabled ==
  /\ pc = "step3"
  /\ ~useLlm
  /\ pc' = "summary"
  /\ UNCHANGED <<useLlm, stages, rule, llm, data, rendered, err, llmCalls, pdf,
                 diResult, gap, text, services,
                 _last_two_col_headers, batchVars, runs, fnVars>>

\* lines 229-231, 235-236
GapCheck ==
  /\ pc = "step3"
  /\ useLlm
  /\ stages' = Append(stages, "gap")
  /\ gap' = IF should_use_llm(data) THEN "yes" ELSE "no"
  /\ pc' = IF NeedsLlm(useLlm, data) THEN "llm" ELSE "summary"
  /\ UNCHANGED <<useLlm, rule, llm, data, rendered, err, llmCalls, pdf, diResult,
                 text, services,
                 _last_two_col_headers, batchVars, runs, fnVars>>

\* lines 232-234: enhance_with_llm returns the record or raises
EnhanceWithLlm ==
  /\ pc = "llm"
  /\ stages' = Append(stages, "llm")
  /\ llmCalls' = llmCalls + 1
  /\ \E resp \in {Thrown} \cup UNION {Responses(raw) : raw \in RawClasses} :
       LET r == enhance_with_llm(data, resp)
       IN  /\ llm' = r.llm
           /\ IF r.exc = ""
                THEN /\ data' = r.rec
                     /\ pc' = "summary"
                     /\ err' = err
                ELSE /\ data' = data
                     /\ pc' = "failed"
                     /\ err' = r.exc
  \* line 233: extract_text_from_pdf runs again before the call
  /\ _last_two_col_headers' = pdf.two_col
  /\ UNCHANGED <<useLlm, rule, rendered, pdf, diResult, gap, text, services,
                 batchVars, runs, fnVars>>

\* lines 188-205: the sheet writers iterate services and call .get on each
\* item, which a string (adopted from the LLM) does not survive
save_to_excel(record) ==
  IF record["services"].kind = "str" THEN "AttributeError" ELSE ""

\* line 246
SaveToExcel ==
  /\ pc = "summary"
  /\ stages' = Append(stages, "render")
  /\ rendered' = data
  /\ pc' = IF save_to_excel(data) = "" THEN "done" ELSE "failed"
  /\ err' = save_to_excel(data)
  /\ UNCHANGED <<useLlm, rule, llm, data, llmCalls, pdf, diResult, gap,
                 text, services,
                 _last_two_col_headers, batchVars, runs, fnVars>>

Next ==
  \/ CheckFile
  \/ AnalyzePdf
  \/ ExtractWorkorder
  \/ LlmDisabled
  \/ GapCheck
  \/ EnhanceWithLlm
  \/ SaveToExcel

Spec == Init /\ [][Next]_vars

-----------------------------------------------------------------------------
(* main.py: process_folder.                                                *)

\* the folder holds at most this many PDFs
MaxFolder == 3

\* process_pdf as a function of the document and of what the two services
\* answer: the exception that leaves it ("" when it returns), the record
\* handed to save_to_excel, and whether extract_text_from_pdf ran
process_pdf(d, enabled, call_ok, resp) ==
  LET a   == analyze_pdf(d, call_ok)
      rec == extract_workorder(a.result, d)
      r   == enhance_with_llm(rec, resp)
      out == IF NeedsLlm(enabled, rec) THEN r.rec ELSE rec
  IN  IF ~d.exists THEN [exc |-> "FileNotFoundError", data |-> NoRecord, read |-> FALSE]
      ELSE IF a.exc # "" THEN [exc |-> a.exc, data |-> NoRecord, read |-> FALSE]
      ELSE IF NeedsLlm(enabled, rec) /\ r.exc # ""
        THEN [exc |-> r.exc, data |-> NoRecord, read |-> TRUE]
      ELSE [exc |-> save_to_excel(out), data |-> out, read |-> TRUE]

\* line 262: except Exception catches every exception process_pdf raises
Caught_OnlyRuntimeError(exc) == exc = "RuntimeError"

Caught(exc) == TRUE

\* the path save_to_excel returns for a PDF
OutPath(name) == <<name, "extracted.xlsx">>

\* the files Path.glob may list
FolderFiles ==
  {[name |-> "a.pdf", doc |-> MkDoc({}, 0)],
   [name |-> "b.pdf", doc |-> MkDoc({"Order Number"}, 1)],
   [name |-> "c.pdf", doc |-> MissingDoc],
   [name |-> "d.pdf", doc |-> MkDoc({"Services"}, 0)]}

Folders ==
  {f \in UNION {[1..n -> FolderFiles] : n \in 0..MaxFolder} :
     \A i, j \in DOMAIN f : i # j => f[i].name # f[j].name}

\* the answers of the LLM service in a batch
BatchResponses ==
  {Thrown,
   [throws |-> FALSE, raw |-> <<"v">>, obj |-> NoRecord, other |-> Top("list", NoRecord)],
   [throws |-> FALSE, raw |-> <<"{", "m", "}">>,
    obj |-> [NoRecord EXCEPT !["services"] = JList(<<LlmService>>)], other |-> NoTop]}

PipeIdle ==
  /\ stages = <<>> /\ diResult = NoResult /\ rule = NoRecord /\ data = NoRecord
  /\ llm = NoLlm /\ gap = "" /\ rendered = NoRecord /\ err = "" /\ llmCalls = 0
  /\ pdf = MkDoc({}, 0)

InitBatch ==
  /\ pc = "folder_start"
  /\ folder \in Folders
  /\ attempts = <<>>
  /\ results = <<>>
  /\ useLlm \in BOOLEAN
  /\ _last_two_col_headers = NoDict
  /\ PipeIdle
  /\ SvcIdle
  /\ RunsIdle
  /\ FnIdle

\* lines 254-258
ListFolder ==
  /\ pc = "folder_start"
  /\ pc' = IF folder = <<>> THEN "folder_done" ELSE "folder_loop"
  /\ UNCHANGED <<pipeVars, svcVars, _last_two_col_headers, batchVars, runs, fnVars>>

\* lines 259-264: one iteration of the loop, and the return after the last
ProcessNextPdf ==
  /\ pc = "folder_loop"
  /\ Len(attempts) < Len(folder)
  /\ \E call_ok \in BOOLEAN, resp \in BatchResponses :
       LET f == folder[Len(attempts) + 1]
           r == process_pdf(f.doc, useLlm, call_ok, resp)
       IN  /\ attempts' = Append(attempts, [name |-> f.name, exc |-> r.exc])
           /\ results' = IF r.exc = "" THEN Append(results, OutPath(f.name)) ELSE results
           /\ _last_two_col_headers' =
                IF r.read THEN f.doc.two_col ELSE _last_two_col_headers
           /\ pc' = IF r.exc # "" /\ ~Caught(r.exc) THEN "failed"
                    ELSE IF Len(attempts) + 1 = Len(folder) THEN "folder_done"
                    ELSE "folder_loop"
  /\ UNCHANGED <<pipeVars, svcVars, folder, runs, fnVars>>

NextBatch == ListFolder \/ ProcessNextPdf

SpecBatch == InitBatch /\ [][NextBatch]_vars

-----------------------------------------------------------------------------
(* should_use_llm on every combination of the mandatory fields.            *)

GapSubsets == SUBSET (_MANDATORY_HEADER_FIELDS \cup _MANDATORY_PRICING_FIELDS)

\* a record whose mandatory fields in empty are absent or "" (emptyAs), with
\* or without a service, an optional field and metadata
GapRecord(empty, emptyAs, svc, extra) ==
  [k \in TopKeys |->
    CASE k = "header" ->
           JDict([f \in AllFields |->
             IF f \in _MANDATORY_HEADER_FIELDS
               THEN (IF f \in empty THEN emptyAs ELSE "R")
             ELSE IF f = "Vendor Name" /\ extra = "optional" THEN "R"
             ELSE Absent])
      [] k = "pricing" ->
           JDict([f \in AllFields |->
             IF f \in _MANDATORY_PRICING_FIELDS
               THEN (IF f \in empty THEN emptyAs ELSE "R")
             ELSE IF f = "HSD Source" /\ extra = "optional" THEN "R"
             ELSE Absent])
      [] k = "services" -> svc
      [] k = "text_blocks" -> JDict(NoDict)
      [] k = "change_orders" -> JList(<<>>)
      [] k = "metadata" ->
           IF extra = "metadata"
             THEN JDict([f \in AllFields |-> IF f \in MetaFields THEN "" ELSE Absent])
             ELSE JDict([f \in AllFields |-> IF f \in MetaFields THEN "1" ELSE Absent])
      [] OTHER -> JAbsent]

GapRecords ==
  {GapRecord(empty, emptyAs, svc, extra) :
     empty \in GapSubsets, emptyAs \in {Absent, ""},
     svc \in {JAbsent, JList(<<>>), JList(<<LlmService>>)},
     extra \in {"none", "optional", "metadata"}}

InitGap ==
  /\ pc = "gap_input"
  /\ data \in GapRecords
  /\ useLlm = TRUE
  /\ pdf = MkDoc({}, 0)
  /\ stages = <<>>
  /\ diResult = NoResult
  /\ rule = NoRecord
  /\ llm = NoLlm
  /\ gap = ""
  /\ rendered = NoRecord
  /\ err = ""
  /\ llmCalls = 0
  /\ text = <<>>
  /\ services = <<>>
  /\ _last_two_col_headers = NoDict
  /\ BatchIdle
  /\ RunsIdle
  /\ FnIdle

ShouldUseLlm ==
  /\ pc = "gap_input"
  /\ gap' = IF should_use_llm(data) THEN "yes" ELSE "no"
  /\ pc' = "gap_done"
  /\ UNCHANGED <<useLlm, stages, rule, llm, data, rendered, err, llmCalls, pdf,
                 diResult, text, services,
                 _last_two_col_headers, batchVars, runs, fnVars>>

NextGap == ShouldUseLlm

SpecGap == InitGap /\ [][NextGap]_vars

-----------------------------------------------------------------------------
(* _extract_services on every text of at most MaxMatches matches.          *)

Matches ==
  {[kind |-> "hdr", srv |-> srv, wide |-> w, noise |-> FALSE] :
     srv \in {"MS1", "MS2"}, w \in BOOLEAN}
  \cup {[kind |-> "long", srv |-> "", wide |-> FALSE, noise |-> n] : n \in BOOLEAN}
  \cup {[kind |-> "rate", srv |-> "", wide |-> FALSE, noise |-> FALSE]}

\* header matches do not overlap, and a wide one needs a match to run into
WellFormed(m) ==
  \A i \in DOMAIN m :
    m[i].wide => i < Len(m) /\ m[i+1].kind # "hdr"

Texts == {m \in UNION {[1..n -> Matches] : n \in 0..MaxMatches} : WellFormed(m)}

InitServices ==
  /\ pc = "services_input"
  /\ text \in Texts
  /\ services = <<>>
  /\ useLlm = TRUE
  /\ pdf = MkDoc({}, 0)
  /\ stages = <<>>
  /\ diResult = NoResult
  /\ rule = NoRecord
  /\ data = NoRecord
  /\ llm = NoLlm
  /\ gap = ""
  /\ rendered = NoRecord
  /\ err = ""
  /\ llmCalls = 0
  /\ _last_two_col_headers = NoDict
  /\ BatchIdle
  /\ RunsIdle
  /\ FnIdle

ExtractServices ==
  /\ pc = "services_input"
  /\ services' = _extract_services(text)
  /\ pc' = "services_done"
  /\ UNCHANGED <<useLlm, stages, rule, llm, data, rendered, err, llmCalls, pdf,
                 diResult, gap, text,
                 _last_two_col_headers, batchVars, runs, fnVars>>

NextServices == ExtractServices

SpecServices == InitServices /\ [][NextServices]_vars

-----------------------------------------------------------------------------
(* src/cleaner.py.  A string is a sequence of one-character strings.       *)

UpperCase ==
  <<"A", "B", "C", "D", "E", "F", "G", "H", "I", "J", "K", "L", "M", "N", "O", "P", "Q", "R", "S", "T", "U", "V", "W", "X", "Y", "Z">>
LowerCase ==
  <<"a", "b", "c", "d", "e", "f", "g", "h", "i", "j", "k", "l", "m", "n", "o", "p", "q", "r", "s", "t", "u", "v", "w", "x", "y", "z">>
Digits == {"0", "1", "2", "3", "4", "5", "6", "7", "8", "9"}

\* re.I: characters are compared after case folding
Lower(c) ==
  IF \E i \in DOMAIN UpperCase : UpperCase[i] = c
    THEN LowerCase[CHOOSE i \in DOMAIN UpperCase : UpperCase[i] = c]
    ELSE c

IsLetter(c) == \E i \in DOMAIN UpperCase : c \in {UpperCase[i], LowerCase[i]}

\* \w and \s of the re module
IsWord(c) == IsLetter(c) \/ c \in Digits \/ c = "_"
IsSpace(c) == c \in {" ", "\t", "\n", "\r"}

\* str.strip(chars)
Strip(s, chars) ==
  LET keep == {i \in DOMAIN s : s[i] \notin chars}
  IN  IF keep = {} THEN <<>>
      ELSE SubSeq(s, CHOOSE i \in keep : \A j \in keep : i <= j,
                     CHOOSE i \in keep : \A j \in keep : j <= i)

StripWs(s) == Strip(s, {" ", "\t", "\n", "\r"})

\* line 46: re.sub(r'\s+', ' ', text)
CollapseWs(s) ==
  LET F[i \in 0..Len(s)] ==
        IF i = 0 THEN <<>>
        ELSE IF ~IsSpace(s[i]) THEN Append(F[i-1], s[i])
        ELSE IF i > 1 /\ IsSpace(s[i-1]) THEN F[i-1]
        ELSE Append(F[i-1], " ")
  IN  F[Len(s)]

\* the first position from i on that holds no whitespace, Len(s) + 1 if none
SkipWs(s, i) ==
  LET rest == {j \in i..Len(s) : ~IsSpace(s[j])}
  IN  IF rest = {} THEN Len(s) + 1 ELSE CHOOSE j \in rest : \A q \in rest : j <= q

_LETTER_SPACED_WORDS ==
  <<
   [letters |-> <<"W", "O", "R", "K", "O", "R", "D", "E", "R">>,
    repl |-> <<"W", "O", "R", "K", " ", "O", "R", "D", "E", "R">>],
   [letters |-> <<"C", "O", "A", "L">>,
    repl |-> <<"C", "O", "A", "L">>],
   [letters |-> <<"P", "a", "g", "e">>,
    repl |-> <<"P", "a", "g", "e">>],
   [letters |-> <<"h", "a", "n", "d", "l", "i", "n", "g">>,
    repl |-> <<"h", "a", "n", "d", "l", "i", "n", "g">>],
   [letters |-> <<"t", "r", "a", "n", "s", "p", "o", "r", "t">>,
    repl |-> <<"t", "r", "a", "n", "s", "p", "o", "r", "t">>],
   [letters |-> <<"c", "o", "m", "m", "e", "n", "c", "e", "m", "e", "n", "t">>,
    repl |-> <<"c", "o", "m", "m", "e", "n", "c", "e", "m", "e", "n", "t">>],
   [letters |-> <<"s", "t", "a", "t", "u", "t", "o", "r", "y">>,
    repl |-> <<"s", "t", "a", "t", "u", "t", "o", "r", "y">>],
   [letters |-> <<"e", "n", "v", "i", "r", "o", "n", "m", "e", "n", "t", "a", "l">>,
    repl |-> <<"e", "n", "v", "i", "r", "o", "n", "m", "e", "n", "t", "a", "l">>],
   [letters |-> <<"c", "o", "m", "p", "l", "i", "a", "n", "c", "e">>,
    repl |-> <<"c", "o", "m", "p", "l", "i", "a", "n", "c", "e">>],
   [letters |-> <<"L", "O", "A", "D", "I", "N", "G">>,
    repl |-> <<"L", "O", "A", "D", "I", "N", "G">>],
   [letters |-> <<"T", "R", "A", "N", "S", "P", "O", "R", "T", "A", "T", "I", "O", "N">>,
    repl |-> <<"T", "R", "A", "N", "S", "P", "O", "R", "T", "A", "T", "I", "O", "N">>],
   [letters |-> <<"H", "A", "N", "D", "L", "I", "N", "G">>,
    repl |-> <<"H", "A", "N", "D", "L", "I", "N", "G">>],
   [letters |-> <<"L", "I", "F", "T", "I", "N", "G">>,
    repl |-> <<"L", "I", "F", "T", "I", "N", "G">>]
  >>
\* where the match of \bL1\s+L2\s+...Ln\b that starts at position i ends, 0
\* when the pattern does not match there
LetterSpacedEnd(s, i, letters) ==
  LET G[k \in 1..Len(letters), p \in 1..Len(s)] ==
        \* letters[k] is at position p
        IF k = Len(letters)
          THEN (IF p = Len(s) \/ ~IsWord(s[p+1]) THEN p ELSE 0)
        ELSE LET j == SkipWs(s, p + 1)
             IN  IF j = p + 1 \/ j > Len(s) THEN 0
                 ELSE IF Lower(s[j]) = Lower(letters[k+1]) THEN G[k+1, j]
                 ELSE 0
  IN  IF Lower(s[i]) = Lower(letters[1]) /\ (i = 1 \/ ~IsWord(s[i-1]))
        THEN G[1, i]
        ELSE 0

\* line 31: re.sub(pattern, replacement, text, flags=re.I) for one table row
SubLetterSpaced(s, w) ==
  LET F[i \in 1..(Len(s) + 1)] ==
        IF i > Len(s) THEN <<>>
        ELSE IF LetterSpacedEnd(s, i, w.letters) # 0
          THEN w.repl \o F[LetterSpacedEnd(s, i, w.letters) + 1]
        ELSE <<s[i]>> \o F[i+1]
  IN  F[1]

fix_letter_spacing(txt) ==
  LET F[n \in 0..Len(_LETTER_SPACED_WORDS)] ==
        IF n = 0 THEN txt ELSE SubLetterSpaced(F[n-1], _LETTER_SPACED_WORDS[n])
  IN  F[Len(_LETTER_SPACED_WORDS)]

\* line 52: re.sub(r'#{2,}', '', text)
RemoveHashRuns(s) ==
  LET inRun(i) == s[i] = "#" /\ ((i > 1 /\ s[i-1] = "#") \/ (i < Len(s) /\ s[i+1] = "#"))
      F[i \in 0..Len(s)] ==
        IF i = 0 THEN <<>> ELSE IF inRun(i) THEN F[i-1] ELSE Append(F[i-1], s[i])
  IN  F[Len(s)]

\* line 53: re.sub(r'\s#\s', ' ', text)
RemoveLoneHash(s) ==
  LET hit(i) == i + 2 <= Len(s) /\ IsSpace(s[i]) /\ s[i+1] = "#" /\ IsSpace(s[i+2])
      F[i \in 1..(Len(s) + 3)] ==
        IF i > Len(s) THEN <<>>
        ELSE IF hit(i) THEN <<" ">> \o F[i+3]
        ELSE <<s[i]>> \o F[i+1]
  IN  F[1]

\* line 56: re.sub(r'\s*:-\s*', ': ', text)
NormalizeSeparators(s) ==
  LET at(i) == SkipWs(s, i)
      hit(i) == at(i) + 1 <= Len(s) /\ s[at(i)] = ":" /\ s[at(i) + 1] = "-"
      F[i \in 1..(Len(s) + 1)] ==
        IF i > Len(s) THEN <<>>
        ELSE IF hit(i) THEN <<":", " ">> \o F[SkipWs(s, at(i) + 2)]
        ELSE <<s[i]>> \o F[i+1]
  IN  F[1]

\* line 59: re.sub(r'<\s*([^>]+?)\s*>', lambda m: f"<{m.group(1).strip()}>", text)
TrimPlaceholders(s) ==
  LET close(i) == LET gt == {j \in (i+1)..Len(s) : s[j] = ">"}
                  IN  IF gt = {} THEN 0 ELSE CHOOSE j \in gt : \A q \in gt : j <= q
      hit(i) == s[i] = "<" /\ close(i) >= i + 2
      F[i \in 1..(Len(s) + 1)] ==
        IF i > Len(s) THEN <<>>
        ELSE IF hit(i)
          THEN <<"<">> \o StripWs(SubSeq(s, i + 1, close(i) - 1)) \o <<">">> \o F[close(i) + 1]
        ELSE <<s[i]>> \o F[i+1]
  IN  F[1]

\* lines 35-64
clean_text(txt) ==
  IF txt = <<>> THEN <<>>
  ELSE LET t1 == CollapseWs(StripWs(txt))
           t2 == fix_letter_spacing(t1)
           t3 == RemoveLoneHash(RemoveHashRuns(t2))
           t4 == NormalizeSeparators(t3)
           t5 == TrimPlaceholders(t4)
       IN  StripWs(Strip(t5, {" ", ".", ",", ":", ";", "-", "#", "*"}))

\* the inputs are made of at most this many pieces
MaxPieces == 5

\* the pieces: the characters the substitutions of clean_text look for, a
\* letter, and a letter-spaced word of the table
Pieces ==
  {<<" ">>, <<"#">>, <<"#", "#">>, <<":", "-">>, <<"<">>, <<">">>, <<"s">>,
   <<"P", " ", "a", " ", "g", " ", "e">>}

Concat(ps) ==
  LET F[i \in 0..Len(ps)] == IF i = 0 THEN <<>> ELSE F[i-1] \o ps[i]
  IN  F[Len(ps)]

CleanInputs == {Concat(ps) : ps \in UNION {[1..n -> Pieces] : n \in 0..MaxPieces}}

InitClean ==
  /\ pc = "clean_input"
  /\ arg \in CleanInputs
  /\ ret = <<>>
  /\ useLlm = TRUE
  /\ _last_two_col_headers = NoDict
  /\ PipeIdle
  /\ SvcIdle
  /\ BatchIdle
  /\ RunsIdle

CleanText ==
  /\ pc = "clean_input"
  /\ ret' = clean_text(arg)
  /\ pc' = "clean_done"
  /\ UNCHANGED <<pipeVars, svcVars, _last_two_col_headers, batchVars, runs, arg>>

NextClean == CleanText

SpecClean == InitClean /\ [][NextClean]_vars

-----------------------------------------------------------------------------
(* src/pdf_extractor.py: resolve_two_column_headers.  A line of page 1 is  *)
(* [kind, s]: kind "label" when the line is a key of _TWO_COL_LABELS (s is *)
(* the line), "value" when it starts with the separator of a value line (s *)
(* is the rest of the line, stripped), "other" for any other line.         *)

_TWO_COL_LABELS ==
  [l \in {"Order No.", "Order Date", "Release Date", "Contact Person", "E-Mail"} |->
     CASE l = "Order No."      -> "Order Number"
       [] l = "Order Date"     -> "Order Date"
       [] l = "Release Date"   -> "Release Date"
       [] l = "Contact Person" -> "Contact Person"
       [] l = "E-Mail"         -> "Contact Email"]

TwoColFields == {_TWO_COL_LABELS[l] : l \in DOMAIN _TWO_COL_LABELS}

IsLabel(line) == line.kind = "label" /\ line.s \in DOMAIN _TWO_COL_LABELS
IsValue(line) == line.kind = "value"

\* the end of the run of lines that satisfy P and starts at i (i - 1 when
\* line i does not satisfy it)
RunEnd(lines, i, P(_)) ==
  LET stop == {j \in i..Len(lines) : ~P(lines[j])}
  IN  IF stop = {} THEN Len(lines)
      ELSE (CHOOSE j \in stop : \A q \in stop : j <= q) - 1

\* lines 59-61 with the pairs taken from the ends of the two runs
ZipRun_FromEnd(lines, a, b, c, result) ==
  LET n == IF b - a + 1 <= c - b THEN b - a + 1 ELSE c - b
      F[k \in 0..n] ==
        IF k = 0 THEN result
        ELSE IF lines[c - n + k].s # ""
          THEN [F[k-1] EXCEPT ![_TWO_COL_LABELS[lines[b - n + k].s]] = lines[c - n + k].s]
        ELSE F[k-1]
  IN  F[n]

\* lines 59-61: zip(labels, values) for the labels a..b and the values
\* b+1..c, written into result
ZipRun(lines, a, b, c, result) ==
  LET n == IF b - a + 1 <= c - b THEN b - a + 1 ELSE c - b
      F[k \in 0..n] ==
        IF k = 0 THEN result
        ELSE IF lines[b + k].s # ""
          THEN [F[k-1] EXCEPT ![_TWO_COL_LABELS[lines[a + k - 1].s]] = lines[b + k].s]
        ELSE F[k-1]
  IN  F[n]

\* lines 44-64: W[i] is the state of the while loop, [i, result], after i
\* steps of it
resolve_two_column_headers(lines) ==
  LET W[n \in 0..Len(lines)] ==
        IF n = 0 THEN [i |-> 1, result |-> [f \in TwoColFields |-> Absent]]
        ELSE LET i == W[n-1].i
                 b == RunEnd(lines, i, IsLabel)
                 c == RunEnd(lines, b + 1, IsValue)
             IN  IF i > Len(lines) THEN W[n-1]
                 ELSE IF IsLabel(lines[i])
                   THEN [i |-> c + 1, result |-> ZipRun(lines, i, b, c, W[n-1].result)]
                 ELSE [i |-> i + 1, result |-> W[n-1].result]
  IN  W[Len(lines)].result

\* a page 1 has at most this many lines
MaxLines == 4

TwoColLines ==
  {[kind |-> "label", s |-> l] : l \in {"Order No.", "Order Date", "E-Mail"}}
  \cup {[kind |-> "value", s |-> v] : v \in {"ABC123", "26.09.2024", ""}}
  \cup {[kind |-> "other", s |-> "Vendor Code"]}

InitTwoCol ==
  /\ pc = "resolve_input"
  /\ arg \in UNION {[1..n -> TwoColLines] : n \in 0..MaxLines}
  /\ ret = <<>>
  /\ useLlm = TRUE
  /\ _last_two_col_headers = NoDict
  /\ PipeIdle
  /\ SvcIdle
  /\ BatchIdle
  /\ RunsIdle

ResolveTwoColumnHeaders ==
  /\ pc = "resolve_input"
  /\ ret' = resolve_two_column_headers(arg)
  /\ pc' = "resolve_done"
  /\ UNCHANGED <<pipeVars, svcVars, _last_two_col_headers, batchVars, runs, arg>>

NextTwoCol == ResolveTwoColumnHeaders

SpecTwoCol == InitTwoCol /\ [][NextTwoCol]_vars

-----------------------------------------------------------------------------
(* Two runs of extract_workorder whose steps interleave.  The steps of a   *)
(* run are those that touch the module global _last_two_col_headers:       *)
(* extract_text_from_pdf clears it (line 70) and sets it from page 1 (line *)
(* 88), _extract_header reads it through get_two_col_headers.              *)

\* documents that differ in the two-column fields of page 1
ConcDocs ==
  {MkDoc({}, 0),
   [MkDoc({}, 0) EXCEPT !.two_col["Order Number"] = "T2"],
   MkDoc({"Order Number"}, 0)}

Run(p, d, rec) == [pc |-> p, doc |-> d, rec |-> rec]

InitConc ==
  /\ pc = "concurrent"
  /\ runs \in [1..2 -> {Run("start", d, NoRecord) : d \in ConcDocs}]
  /\ _last_two_col_headers = NoDict
  /\ useLlm = TRUE
  /\ PipeIdle
  /\ SvcIdle
  /\ BatchIdle
  /\ FnIdle

\* src/pdf_extractor.py line 70
ResetHeaders(i) ==
  /\ runs[i].pc = "start"
  /\ _last_two_col_headers' = NoDict
  /\ runs' = [runs EXCEPT ![i].pc = "reading"]
  /\ UNCHANGED <<pc, pipeVars, svcVars, batchVars, fnVars>>

\* src/pdf_extractor.py lines 87-88
ResolveHeaders(i) ==
  /\ runs[i].pc = "reading"
  /\ _last_two_col_headers' = runs[i].doc.two_col
  /\ runs' = [runs EXCEPT ![i].pc = "read"]
  /\ UNCHANGED <<pc, pipeVars, svcVars, batchVars, fnVars>>

\* src/rule_extractor.py lines 306-321: the extractors run on the text of the
\* document and on what the global holds now
ExtractRecord(i) ==
  /\ runs[i].pc = "read"
  /\ runs' = [runs EXCEPT
       ![i].pc = "done",
       ![i].rec = extract_workorder(ResultOf(runs[i].doc),
                    [runs[i].doc EXCEPT !.two_col = _last_two_col_headers])]
  /\ UNCHANGED <<pc, pipeVars, svcVars, _last_two_col_headers, batchVars, fnVars>>

NextConc == \E i \in 1..2 : ResetHeaders(i) \/ ResolveHeaders(i) \/ ExtractRecord(i)

SpecConc == InitConc /\ [][NextConc]_vars

-----------------------------------------------------------------------------
(* _extract_header on every combination of its three sources for Order     *)
(* Number, Order Date and Release Date.                                    *)

MaxKv == 2

\* the fields with the three sources, and the pattern of each
PriorityFields == {"Order Number", "Order Date", "Release Date"}

PatternOf(f) ==
  CASE f = "Order Number" -> "order_no"
    [] f = "Order Date"   -> "order_date"
    [] f = "Release Date" -> "release_date"

KeywordsOf(f) ==
  CASE f = "Order Number" -> {"order no", "contract number", "order number"}
    [] f = "Order Date"   -> {"order date"}
    [] f = "Release Date" -> {"release date"}

\* what the pattern of the field captures in a text that has it: group 0 for
\* Order Number (line 52), the date for Order Date :- 26.09.2024
CaptureOf(f) ==
  CASE f = "Order Number" -> ":- Test Order No."
    [] f = "Order Date"   -> "26.09.2024"
    [] f = "Release Date" -> "27.09.2024"

HeaderTwoCols ==
  {[k \in AllFields |-> IF k \in PriorityFields THEN t[k] ELSE Absent] :
     t \in [PriorityFields -> {Absent, "", "T"}]}

HeaderPairs ==
  UNION {[1..n -> {[key |-> k, value |-> "K"] :
                     k \in {"order no.", "contract number", "order date",
                            "release date"}}] : n \in 0..MaxKv}

HeaderFinds ==
  {[p \in Patterns |->
      IF \E f \in S : p = PatternOf(f)
        THEN CaptureOf(CHOOSE f \in S : p = PatternOf(f)) ELSE ""] :
     S \in SUBSET PriorityFields}

InitHeader ==
  /\ pc = "header_input"
  /\ arg \in {<<t, kv, fd>> : t \in HeaderTwoCols, kv \in HeaderPairs, fd \in HeaderFinds}
  /\ ret = <<>>
  /\ useLlm = TRUE
  /\ _last_two_col_headers = NoDict
  /\ PipeIdle
  /\ SvcIdle
  /\ BatchIdle
  /\ RunsIdle

\* lines 43-93, on the two-column fields arg[1], the key/value pairs arg[2]
\* and the text arg[3]
ExtractHeader ==
  /\ pc = "header_input"
  /\ ret' = _extract_header(arg[1], _build_kvp_map(arg[2]), arg[3])
  /\ pc' = "header_done"
  /\ UNCHANGED <<pipeVars, svcVars, _last_two_col_headers, batchVars, runs, arg>>

NextHeader == ExtractHeader

SpecHeader == InitHeader /\ [][NextHeader]_vars

-----------------------------------------------------------------------------
(* _extract_change_orders on the text before the first note, one block of  *)
(* at most MaxPhrases phrases and, in half of the texts, a second note.    *)

MaxPhrases == 3

\* the text before the first NOTE : C/O DATED
Preamble == [date |-> "", sep |-> FALSE, phrases |-> <<>>]

CoBlocks ==
  {[date |-> d, sep |-> sp, phrases |-> ph] :
     d \in {"", "15.01.2025"}, sp \in BOOLEAN,
     ph \in UNION {[1..n -> Phrases] : n \in 0..MaxPhrases}}

InitCO ==
  /\ pc = "co_input"
  /\ arg \in {<<Preamble, b>> : b \in CoBlocks}
            \cup {<<Preamble, b, CoBlock>> : b \in CoBlocks}
  /\ ret = <<>>
  /\ useLlm = TRUE
  /\ _last_two_col_headers = NoDict
  /\ PipeIdle
  /\ SvcIdle
  /\ BatchIdle
  /\ RunsIdle

\* lines 258-292
ExtractChangeOrders ==
  /\ pc = "co_input"
  /\ ret' = _extract_change_orders(arg)
  /\ pc' = "co_done"
  /\ UNCHANGED <<pipeVars, svcVars, _last_two_col_headers, batchVars, runs, arg>>

NextCO == ExtractChangeOrders

SpecCO == InitCO /\ [][NextCO]_vars

-----------------------------------------------------------------------------
(* The lengths of the text blocks.  The input gives, for each pattern of   *)
(* _extract_text_blocks, the length of what it captures once the pipes and *)
(* the white space are normalised (0 when it does not match); for the      *)
(* safety heading it gives the length of the text from the heading to the  *)
(* end, the offset of the last pipe in the first SafetyCap characters of   *)
(* the window (-1 when there is none) and the characters the               *)
(* normalisation removes from the cut.                                     *)

ScopeCap     == 2000
ExitCap      == 2000
PaymentCap   == 1500
SafetyWindow == 3200
SafetyCap    == 3000

\* how far over a cap the long captures of the inputs are
Slack == 1

NotFoundLen == Len(<<"N", "o", "t", " ", "f", "o", "u", "n", "d">>)

MinOf(a, b) == IF a <= b THEN a ELSE b

\* lines 218-224: the length of the block cut from the safety section
SafetyCut(rest, pipe, squeezed) ==
  LET raw_s == MinOf(rest, SafetyWindow)
      cut   == pipe
      kept  == IF cut > 0 THEN cut ELSE MinOf(raw_s, SafetyCap)
  IN  IF kept > squeezed THEN kept - squeezed ELSE 0

\* lines 202-251, on lengths: the length of each block, 0 for a key that is
\* not in the result
BlockLengths(n) ==
  [k \in TextBlockFields |->
    CASE k = "Scope of Work" -> MinOf(n.scope, ScopeCap)
      [] k = "Safety Norms" ->
           IF n.safety_rest > 0
             THEN SafetyCut(n.safety_rest, n.safety_pipe, n.squeezed)
             ELSE n.safety_sents
      [] k = "Exit Clause" ->
           IF n.exit_section > 0 THEN MinOf(n.exit_section, ExitCap)
           ELSE IF n.exit_clause > 0 THEN MinOf(n.exit_clause, ExitCap)
           ELSE IF n.exit_liberty > 0 THEN n.exit_liberty
           ELSE NotFoundLen
      [] k = "Payment Terms Detail" -> MinOf(n.payment, PaymentCap)
      [] OTHER -> 0]

LengthsAround(cap) == {0, cap, cap + Slack}

BlockInputs ==
  {n \in [scope        : LengthsAround(ScopeCap),
          safety_rest  : {0, SafetyCap - 1, SafetyWindow + Slack},
          safety_pipe  : {-1, 40, SafetyCap - 1},
          squeezed     : {0, 2},
          safety_sents : LengthsAround(SafetyCap),
          exit_section : {0, ExitCap + Slack},
          exit_clause  : {0, ExitCap + Slack},
          exit_liberty : LengthsAround(ExitCap),
          payment      : LengthsAround(PaymentCap)] :
     \* the pipe lies in the window, and only a text with the heading has one
     /\ n.safety_pipe < MinOf(n.safety_rest, SafetyCap)
     /\ n.safety_rest = 0 => n.squeezed = 0}

InitBlocks ==
  /\ pc = "blocks_input"
  /\ arg \in {<<n>> : n \in BlockInputs}
  /\ ret = <<>>
  /\ useLlm = TRUE
  /\ _last_two_col_headers = NoDict
  /\ PipeIdle
  /\ SvcIdle
  /\ BatchIdle
  /\ RunsIdle

\* lines 202-251
ExtractTextBlocks ==
  /\ pc = "blocks_input"
  /\ ret' = BlockLengths(arg[1])
  /\ pc' = "blocks_done"
  /\ UNCHANGED <<pipeVars, svcVars, _last_two_col_headers, batchVars, runs, arg>>

NextBlocks == ExtractTextBlocks

SpecBlocks == InitBlocks /\ [][NextBlocks]_vars

-----------------------------------------------------------------------------
(* A sequential batch, step by step: process_folder runs process_pdf on    *)
(* one file after the other, and the steps of process_pdf that touch the   *)
(* module global _last_two_col_headers are taken one at a time.  A file is *)
(* [name, doc, page1, opens]: page1 tells whether page 1 has text, opens   *)
(* whether PdfReader can read the file.                                    *)

File(n, d, page1, opens) == [name |-> n, doc |-> d, page1 |-> page1, opens |-> opens]

SeqFiles ==
  {File("a.pdf", MkDoc({}, 0), TRUE, TRUE),
   File("b.pdf", [MkDoc({}, 0) EXCEPT !.two_col["Order Number"] = "T2"], TRUE, TRUE),
   File("c.pdf", MkDoc({}, 0), FALSE, TRUE),
   File("d.pdf", MkDoc({"Vendor Code"}, 0), TRUE, TRUE),
   File("e.pdf", MkDoc({}, 0), TRUE, FALSE),
   File("f.pdf", MissingDoc, TRUE, TRUE)}

\* an entry of the log: the file, the exception that ended process_pdf, and
\* what _extract_header read from get_two_col_headers() when it ran
Attempt(n, exc, ran, read) == [name |-> n, exc |-> exc, ran |-> ran, read |-> read]

CurFile == folder[Len(attempts) + 1]

InitSeq ==
  /\ pc = "seq_next"
  /\ folder \in UNION {[1..n -> SeqFiles] : n \in 0..MaxFolder}
  /\ attempts = <<>>
  /\ results = <<>>
  /\ useLlm \in BOOLEAN
  /\ _last_two_col_headers = NoDict
  /\ PipeIdle
  /\ SvcIdle
  /\ RunsIdle
  /\ FnIdle

\* main.py lines 259-264 and 220-224: the next file, its isfile test and the
\* layout analysis; an exception is caught by the loop
SeqAnalyze ==
  /\ pc = "seq_next"
  /\ Len(attempts) < Len(folder)
  /\ \E call_ok \in BOOLEAN :
       LET exc == IF ~CurFile.doc.exists THEN "FileNotFoundError"
                  ELSE analyze_pdf(CurFile.doc, call_ok).exc
       IN  IF exc # ""
             THEN /\ attempts' = Append(attempts, Attempt(CurFile.name, exc, FALSE, NoDict))
                  /\ pc' = "seq_next"
             ELSE /\ attempts' = attempts
                  /\ pc' = "seq_reset"
  /\ UNCHANGED <<pipeVars, svcVars, _last_two_col_headers, folder, results, runs, fnVars>>

ResetSlot_Keep(slot) == slot

\* pdf_extractor.py lines 69-70
ResetSlot(slot) == NoDict

\* pdf_extractor.py lines 69-72: the global is cleared, then PdfReader opens
\* the file
SeqReset ==
  /\ pc = "seq_reset"
  /\ _last_two_col_headers' = ResetSlot(_last_two_col_headers)
  /\ IF CurFile.opens
       THEN /\ attempts' = attempts
            /\ pc' = "seq_page1"
       ELSE /\ attempts' = Append(attempts, Attempt(CurFile.name, "PdfReadError", FALSE, NoDict))
            /\ pc' = "seq_next"
  /\ UNCHANGED <<pipeVars, svcVars, folder, results, runs, fnVars>>

\* pdf_extractor.py lines 76-88: page 1 sets the global unless it has no text
SeqPage1 ==
  /\ pc = "seq_page1"
  /\ _last_two_col_headers' =
       IF CurFile.page1 THEN CurFile.doc.two_col ELSE _last_two_col_headers
  /\ pc' = "seq_header"
  /\ UNCHANGED <<pipeVars, svcVars, batchVars, runs, fnVars>>

\* rule_extractor.py lines 306-321: the extractors, _extract_header on what
\* the global holds
SeqExtract ==
  /\ pc = "seq_header"
  /\ rule' = extract_workorder(ResultOf(CurFile.doc),
               [CurFile.doc EXCEPT !.two_col = _last_two_col_headers])
  /\ ret' = <<_last_two_col_headers>>
  /\ pc' = "seq_llm"
  /\ UNCHANGED <<useLlm, stages, llm, data, rendered, err, llmCalls, pdf, diResult,
                 gap, svcVars, _last_two_col_headers, batchVars, runs, arg>>

\* main.py lines 229-250: the LLM step, with its second extract_text_from_pdf
\* when the record has gaps, and the spreadsheet
SeqFinish ==
  /\ pc = "seq_llm"
  /\ \E resp \in BatchResponses :
       LET second == NeedsLlm(useLlm, rule)
           r      == enhance_with_llm(rule, resp)
           exc    == IF ~second THEN save_to_excel(rule)
                     ELSE IF r.exc # "" THEN r.exc
                     ELSE save_to_excel(r.rec)
       IN  /\ _last_two_col_headers' =
                IF ~second THEN _last_two_col_headers
                ELSE IF CurFile.page1 THEN CurFile.doc.two_col
                ELSE ResetSlot(_last_two_col_headers)
           /\ attempts' = Append(attempts, Attempt(CurFile.name, exc, TRUE, ret[1]))
           /\ results' = IF exc = "" THEN Append(results, OutPath(CurFile.name)) ELSE results
  /\ rule' = NoRecord
  /\ ret' = <<>>
  /\ pc' = "seq_next"
  /\ UNCHANGED <<useLlm, stages, llm, data, rendered, err, llmCalls, pdf, diResult,
                 gap, svcVars, folder, runs, arg>>

\* main.py line 264
SeqReturn ==
  /\ pc = "seq_next"
  /\ Len(attempts) = Len(folder)
  /\ pc' = "seq_done"
  /\ UNCHANGED <<pipeVars, svcVars, _last_two_col_headers, batchVars, runs, fnVars>>

NextSeq == SeqAnalyze \/ SeqReset \/ SeqPage1 \/ SeqExtract \/ SeqFinish \/ SeqReturn

SpecSeq == InitSeq /\ [][NextSeq]_vars

-----------------------------------------------------------------------------
(* process_pdf on documents that differ in which of the three Exit Clause  *)
(* patterns match.                                                         *)

ExitPatterns == <<"exit_section", "exit_clause", "exit_liberty">>

\* what each pattern captures in a text that has it
ExitCaptures == <<"9.0 Cancellation or Termination of Contract", "Exit clause",
                  "liberty to terminate with 30 days notice.">>

ExitFind(d, S) ==
  [p \in Patterns |->
     IF \E i \in 1..3 : p = ExitPatterns[i]
       THEN LET i == CHOOSE j \in 1..3 : p = ExitPatterns[j]
            IN  IF i \in S THEN ExitCaptures[i] ELSE ""
       ELSE d.find[p]]

ExitDocs ==
  {[d EXCEPT !.find = ExitFind(d, S)] :
     d \in {MkDoc({}, 0), MkDoc({"Vendor Code"}, 0)}, S \in SUBSET (1..3)}

InitExit ==
  /\ pc = "start"
  /\ useLlm \in BOOLEAN
  /\ pdf \in ExitDocs
  /\ stages = <<>> /\ diResult = NoResult /\ rule = NoRecord /\ data = NoRecord
  /\ llm = NoLlm /\ gap = "" /\ rendered = NoRecord /\ err = "" /\ llmCalls = 0
  /\ _last_two_col_headers = NoDict
  /\ SvcIdle
  /\ BatchIdle
  /\ RunsIdle
  /\ FnIdle

SpecExit == InitExit /\ [][Next]_vars

-----------------------------------------------------------------------------
(* Properties.                                                             *)

\* enhance_with_llm returned a merged record (the response parsed)
Merged == llm.status = "parsed" /\ err = ""

\* the section the LLM gave under a top-level key
LlmSection(k) == llm.out.secs[k]

\* C1: for header and pricing, when the LLM section is a mapping, every key
\* of the merged section carries the rule value if that is non-empty and the
\* LLM value otherwise (no key, when neither has it); a non-empty rule value
\* is never replaced.
C1_RuleValueWins ==
  Merged =>
    \A sec \in {"header", "pricing"} :
      LlmSection(sec).kind = "dict" =>
        /\ data[sec].kind = "dict"
        /\ \A k \in AllFields :
             data[sec].d[k] =
               IF rule[sec].d[k] \notin {Absent, ""} THEN rule[sec].d[k]
               ELSE LlmSection(sec).d[k]

C1_Witness ==
  /\ Merged
  /\ pc = "done"
  /\ LlmSection("header").kind = "dict"
  /\ LlmSection("header").d["Order Number"] = "L"
  /\ LlmSection("header").d[UnknownKey] = "L"
  /\ rule["header"].d["Order Number"] = "T"
  /\ rendered["header"].d["Order Number"] = "T"
  /\ rendered["header"].d[UnknownKey] = "L"

\* C2: fail-open.  When the call throws or the response parses neither
\* directly nor from its first-brace-to-last-brace substring,
\* enhance_with_llm does not raise and returns its input record, metadata
\* included.
C2_FailOpen ==
  llm.status \in {"call_failed", "parse_failed"} =>
    /\ err = ""
    /\ pc # "failed"
    /\ data = rule

C2_Witness ==
  /\ llm.status = "parse_failed"
  /\ llm.why = "JSONDecodeError"
  /\ pc = "done"
  /\ rendered = rule
  /\ rule["metadata"].d["pages"] = "2"

C5_TextBlocksLlmBase ==
  Merged =>
    /\ LlmSection("text_blocks").kind = "dict" =>
         \A k \in AllFields :
           data["text_blocks"].d[k] =
             IF rule["text_blocks"].d[k] \notin {Absent, ""}
               THEN rule["text_blocks"].d[k]
               ELSE LlmSection("text_blocks").d[k]
    /\ LlmSection("text_blocks").kind \in {"absent", "null"} =>
         data["text_blocks"] = rule["text_blocks"]

C5_Witness ==
  /\ Merged
  /\ pc = "done"
  /\ LlmSection("text_blocks").d["Exit Clause"] = "L"
  /\ LlmSection("text_blocks").d[UnknownKey] = "L"
  /\ rule["text_blocks"].d[UnknownKey] = Absent
  /\ rule["text_blocks"].d["Exit Clause"] = "P"
  /\ rendered["text_blocks"].d["Exit Clause"] = "P"
  /\ rendered["text_blocks"].d["Scope of Work"] = "P"
  /\ rendered["text_blocks"].d[UnknownKey] = "L"

\* C6: the metadata of the record enhance_with_llm returns is the metadata
\* of its input, whatever the LLM output holds (a metadata key, unknown
\* keys), and should_use_llm gives the same answer when the metadata is
\* taken away.
C6_MetadataUntouched ==
  /\ (llm.status # "not_called" /\ err = "") => data["metadata"] = rule["metadata"]
  /\ gap # "" =>
       (gap = "yes") = should_use_llm([rule EXCEPT !["metadata"] = JAbsent])

C6_Witness ==
  /\ Merged
  /\ pc = "done"
  /\ LlmSection("metadata").kind = "dict"
  /\ LlmSection("metadata").d["pages"] = "L"
  /\ rendered["metadata"].d["pages"] = "2"
  /\ gap = "yes"

\* C7: for every response that is well-formed JSON, enhance_with_llm returns
\* a record without raising, without the unknown top-level keys of the
\* response, and with the rule value of every section the response lacks.
C7_SchemaMismatchNotFatal ==
  llm.status = "parsed" =>
    /\ err = ""
    /\ pc # "failed"
    /\ data["notes"].kind = "absent"
    /\ \A sec \in TopKeys :
         (llm.out.kind = "dict" /\ LlmSection(sec).kind = "absent") => data[sec] = rule[sec]

\* C8: the header and pricing mappings of the record handed to the renderer
\* hold no key with an empty value.
C8_NoEmptyValues ==
  pc = "done" =>
    \A sec \in {"header", "pricing"} :
      \A k \in AllFields : rendered[sec].d[k] # ""

\* C10: the stages run in the order layout analysis, rule extraction, gap
\* detection, LLM gap-fill, render (gap detection only with the fallback
\* enabled, the gap-fill only after a detected gap); the LLM is called at
\* most once, and only when the fallback is enabled and should_use_llm was
\* true of the rule record; otherwise the rule record itself is rendered.
IsPrefix(a, b) == Len(a) <= Len(b) /\ SubSeq(b, 1, Len(a)) = a

C10_StageOrder ==
  /\ \/ IsPrefix(stages, <<"layout", "rules", "gap", "llm", "render">>)
     \/ IsPrefix(stages, <<"layout", "rules", "gap", "render">>)
     \/ IsPrefix(stages, <<"layout", "rules", "render">>)
  /\ llmCalls <= 1
  /\ llmCalls = 1 => (useLlm /\ gap = "yes" /\ should_use_llm(rule))
  /\ (\E i \in DOMAIN stages : stages[i] = "llm") = (llmCalls = 1)
  /\ (pc = "done" /\ (~useLlm \/ gap = "no")) => (rendered = rule /\ llmCalls = 0)

C10_Witness ==
  /\ pc = "done"
  /\ stages = <<"layout", "rules", "gap", "llm", "render">>
  /\ llmCalls = 1
  /\ rendered # rule

\* C3: should_use_llm is true exactly when one of the six mandatory header
\* fields or one of the three mandatory pricing fields is absent or empty,
\* or the services list is empty; nothing else changes the answer.
C3_GapTrigger ==
  pc = "gap_done" =>
    ((gap = "yes") =
       \/ \E f \in {"Order Number", "Order Date", "Validity From", "Validity To",
                    "Vendor Code", "Payment Terms"} :
            data["header"].d[f] \in {Absent, ""}
       \/ \E f \in {"Diesel Component %", "Base HSD (INR/L)", "Gross Price (INR)"} :
            data["pricing"].d[f] \in {Absent, ""}
       \/ Len(data["services"].l) = 0)

C3_Witness ==
  /\ pc = "gap_done"
  /\ gap = "yes"
  /\ {f \in AllFields : data["header"].d[f] = "R"} =
       {"Order Number", "Order Date", "Validity From", "Validity To", "Payment Terms"}
  /\ \A f \in _MANDATORY_PRICING_FIELDS : data["pricing"].d[f] = "R"
  /\ Len(data["services"].l) = 1

\* C9: the list _extract_services returns has no two entries with the same
\* SrvNo; its entries are those built from the first header match of each
\* service number, in document order.
FirstHeaders ==
  {p \in Indices(text, "hdr") :
     \A q \in Indices(text, "hdr") : q < p => text[q].srv # text[p].srv}

C9_ServicesUnique ==
  pc = "services_done" =>
    /\ \A i, j \in DOMAIN services :
         i # j => services[i].SrvNo # services[j].SrvNo
    /\ Len(services) = Cardinality(FirstHeaders)
    /\ \A i \in DOMAIN services :
         \E p \in FirstHeaders :
           /\ services[i].SrNo = PosStr[p]
           /\ services[i].Brief = BriefAt[p]
           /\ services[i].SrvNo = text[p].srv
           /\ Cardinality({q \in FirstHeaders : q <= p}) = i

C9_Witness ==
  /\ pc = "services_done"
  /\ Len(text) = 4
  /\ text[1].kind = "hdr" /\ text[1].srv = "MS1"
  /\ text[2].kind = "hdr" /\ text[2].srv = "MS2"
  /\ text[3].kind = "hdr" /\ text[3].srv = "MS1"
  /\ text[4].kind = "rate"
  /\ Len(services) = 2
  /\ services[1].SrNo = "1" /\ services[1].Rate = ""
  /\ services[2].SrNo = "2"

Succeeded(a) ==
  LET F[i \in 0..Len(a)] ==
        IF i = 0 THEN <<>>
        ELSE IF a[i].exc = "" THEN Append(F[i-1], OutPath(a[i].name))
        ELSE F[i-1]
  IN  F[Len(a)]

C11_BatchContinues ==
  /\ pc \in {"folder_start", "folder_loop", "folder_done"}
  /\ Len(attempts) <= Len(folder)
  /\ \A i \in DOMAIN attempts : attempts[i].name = folder[i].name
  /\ results = Succeeded(attempts)
  /\ pc = "folder_done" => Len(attempts) = Len(folder)

C11_Witness ==
  /\ pc = "folder_done"
  /\ Len(folder) = 3
  /\ attempts[1].exc = "FileNotFoundError"
  /\ attempts[2].exc = "AttributeError"
  /\ attempts[3].exc = ""
  /\ results = <<OutPath(folder[3].name)>>

\* C13: clean_text is idempotent, clean_text(clean_text(x)) = clean_text(x).
C13_Idempotent ==
  pc = "clean_done" => clean_text(ret) = ret

\* whether sub occurs in s as a contiguous run
Contains(s, sub) ==
  \E i \in 1..(Len(s) + 1) :
    i + Len(sub) - 1 <= Len(s) /\ SubSeq(s, i, i + Len(sub) - 1) = sub

\* the token of the placeholder whose brackets are at positions i and j: the
\* text between them without the padding, its inner whitespace runs single
Token(s, i, j) == CollapseWs(StripWs(SubSeq(s, i + 1, j - 1)))

Placeholders(s) ==
  {ij \in (DOMAIN s) \X (DOMAIN s) :
     /\ ij[1] < ij[2]
     /\ s[ij[1]] = "<"
     /\ s[ij[2]] = ">"
     /\ \A k \in (ij[1] + 1)..(ij[2] - 1) : s[k] \notin {"<", ">"}
     /\ Token(s, ij[1], ij[2]) # <<>>}

\* C14: for every placeholder of the input, a bracket, padding, a token,
\* padding and the closing bracket, the result of clean_text holds the
\* bracketed token without the padding and with the token text unchanged.
C14_PlaceholderKept ==
  pc = "clean_done" =>
    \A ij \in Placeholders(arg) :
      Contains(ret, <<"<">> \o Token(arg, ij[1], ij[2]) \o <<">">>)

NotSpace(c) == ~IsSpace(c)

LowerSeq(s) == [i \in DOMAIN s |-> Lower(s[i])]

\* a word written with whitespace between every two letters
LetterSpaced(s) ==
  /\ s # <<>>
  /\ \A i \in DOMAIN s : IsLetter(s[i]) \/ IsSpace(s[i])
  /\ IsLetter(s[1]) /\ IsLetter(s[Len(s)])
  /\ \A i \in 1..(Len(s) - 1) : IsLetter(s[i]) => IsSpace(s[i+1])

\* the word w of the table starts at letter k of the letters js
WordAt(js, k, w) ==
  /\ k + Len(w.letters) - 1 <= Len(js)
  /\ LowerSeq(SubSeq(js, k, k + Len(w.letters) - 1)) = LowerSeq(w.letters)

\* a word that starts with a word of the table, goes on with more letters,
\* and holds no other word of the table
StartsWithTableWord(js) ==
  \E n \in DOMAIN _LETTER_SPACED_WORDS :
    /\ WordAt(js, 1, _LETTER_SPACED_WORDS[n])
    /\ Len(js) > Len(_LETTER_SPACED_WORDS[n].letters)
    /\ \A k \in 2..Len(js), m \in DOMAIN _LETTER_SPACED_WORDS :
         ~WordAt(js, k, _LETTER_SPACED_WORDS[m])

\* C15: the letter-spacing fix is exact-phrase.  A letter-spaced word that
\* merely starts with a word of the table (P a g e s) is not rewritten:
\* clean_text changes nothing in it but its whitespace runs.
C15_ExactPhrase ==
  (pc = "clean_done" /\ LetterSpaced(arg) /\ StartsWithTableWord(SelectSeq(arg, NotSpace))) =>
    ret = CollapseWs(arg)

\* line q is the value paired with the label at line p: p lies in a maximal
\* run of labels a..b, the lines b+1..q are value lines, and q is as far
\* into them as p is into the labels
PairedWith(lines, p, q) ==
  /\ p \in DOMAIN lines /\ q \in DOMAIN lines
  /\ IsLabel(lines[p])
  /\ \E a \in 1..p, b \in p..Len(lines) :
       /\ \A j \in a..b : IsLabel(lines[j])
       /\ a = 1 \/ ~IsLabel(lines[a - 1])
       /\ b = Len(lines) \/ ~IsLabel(lines[b + 1])
       /\ q = b + (p - a + 1)
       /\ \A j \in (b + 1)..q : IsValue(lines[j])

\* C16: resolve_two_column_headers pairs every run of consecutive labels
\* with the run of value lines that directly follows it, position by
\* position; labels or values beyond the shorter run give no entry, a pair
\* with an empty value gives none, and the last pair of a field stands.
C16_PositionalPairing ==
  pc = "resolve_done" =>
    \A f \in TwoColFields :
      LET ps == {p \in DOMAIN arg :
                   IsLabel(arg[p]) /\ _TWO_COL_LABELS[arg[p].s] = f
                   /\ \E q \in DOMAIN arg : PairedWith(arg, p, q) /\ arg[q].s # ""}
          last == CHOOSE p \in ps : \A r \in ps : r <= p
      IN  IF ps = {} THEN ret[f] = Absent
          ELSE \E q \in DOMAIN arg : PairedWith(arg, last, q) /\ ret[f] = arg[q].s

C16_Witness ==
  /\ pc = "resolve_done"
  /\ arg = <<[kind |-> "label", s |-> "Order No."], [kind |-> "label", s |-> "Order Date"],
             [kind |-> "value", s |-> "ABC123"], [kind |-> "value", s |-> "26.09.2024"]>>
  /\ ret["Order Number"] = "ABC123"
  /\ ret["Order Date"] = "26.09.2024"
  /\ \A f \in TwoColFields \ {"Order Number", "Order Date"} : ret[f] = Absent

\* C17: when two documents are processed concurrently, the record of each
\* is the record it gets when processed alone, its header fields from the
\* two-column resolution of page 1 included.
C17_RunsIsolated ==
  pc = "concurrent" =>
    \A i \in DOMAIN runs :
      runs[i].pc = "done" =>
        runs[i].rec = extract_workorder(ResultOf(runs[i].doc), runs[i].doc)

\* the sources of field f in the input of _extract_header
TwoColOf(f) == arg[1][f]
KvOf(f)     == _kvp_get(_build_kvp_map(arg[2]), KeywordsOf(f))
FoundOf(f)  == arg[3][PatternOf(f)]

\* C18: Order Number, Order Date and Release Date take the first non-empty
\* of the two-column value, the key/value result and the pattern capture, in
\* that order; the field is absent only when the three are empty.
C18_SourcePriority ==
  pc = "header_done" =>
    \A f \in PriorityFields :
      /\ FieldTruthy(TwoColOf(f)) => ret[f] = TwoColOf(f)
      /\ ~FieldTruthy(TwoColOf(f)) /\ KvOf(f) # "" => ret[f] = KvOf(f)
      /\ ~FieldTruthy(TwoColOf(f)) /\ KvOf(f) = "" /\ FoundOf(f) # ""
           => ret[f] = FoundOf(f)
      /\ ret[f] = Absent
           <=> ~FieldTruthy(TwoColOf(f)) /\ KvOf(f) = "" /\ FoundOf(f) = ""

\* every source of Order Number is there and the two-column value is used;
\* Order Date has only the text Order Date :- 26.09.2024; Release Date has
\* the key/value pair and the pattern
C18_Witness ==
  /\ pc = "header_done"
  /\ TwoColOf("Order Number") = "T" /\ KvOf("Order Number") = "K"
  /\ FoundOf("Order Number") # "" /\ ret["Order Number"] = "T"
  /\ TwoColOf("Order Date") = Absent /\ KvOf("Order Date") = ""
  /\ ret["Order Date"] = "26.09.2024"
  /\ TwoColOf("Release Date") = "" /\ KvOf("Release Date") = "K"
  /\ FoundOf("Release Date") # "" /\ ret["Release Date"] = "K"

\* the position of the header match the entry was built from, and the end of
\* its window: the start of the next header match of the text, whatever its
\* service number, or the end of the text
HeaderOf(svc) == CHOOSE p \in Indices(text, "hdr") : PosStr[p] = svc.SrNo
WindowEnd(p) ==
  IF \E q \in Indices(text, "hdr") : q > p
    THEN Start(CHOOSE q \in Indices(text, "hdr") :
                 q > p /\ \A q2 \in Indices(text, "hdr") : q2 > p => q <= q2)
    ELSE TextLen(text)
InWindow(p, kind) ==
  {j \in DOMAIN text :
     /\ text[j].kind = kind
     /\ HdrEnd(text, p) <= Start(j)
     /\ Start(j) < WindowEnd(p)}

\* C19: the Long Text and the Rate and Unit of a service line are those of
\* the first long-text match and the first rate match that start in the
\* window [header_end, next_header_start) of its header, and are empty when
\* no match starts there; the windows are those of all header matches,
\* duplicates of a service number included.
C19_WindowAssociation ==
  pc = "services_done" =>
    \A i \in DOMAIN services :
      LET p  == HeaderOf(services[i])
          ls == InWindow(p, "long")
          rs == InWindow(p, "rate")
      IN  /\ ls = {} => services[i].LongText = ""
          /\ ls # {} =>
               \E j \in ls :
                 /\ \A k \in ls : j <= k
                 /\ services[i].LongText = IF text[j].noise THEN "" ELSE LongAt[j]
          /\ rs = {} => services[i].Rate = "" /\ services[i].Unit = ""
          /\ rs # {} =>
               \E j \in rs :
                 /\ \A k \in rs : j <= k
                 /\ services[i].Rate = RateAt[j] /\ services[i].Unit = UnitAt[j]

\* two header matches of MS1 and then a long text and a rate: they lie in the
\* window of the second header, which line 163 drops, and the line that is
\* kept has neither
C19_Witness ==
  /\ pc = "services_done"
  /\ Len(text) = 4
  /\ text[1].kind = "hdr" /\ text[1].srv = "MS1"
  /\ text[2].kind = "hdr" /\ text[2].srv = "MS1" /\ ~text[2].wide
  /\ text[3].kind = "long" /\ ~text[3].noise
  /\ text[4].kind = "rate"
  /\ Len(services) = 1
  /\ services[1].SrNo = "1"
  /\ services[1].LongText = "" /\ services[1].Rate = "" /\ services[1].Unit = ""

\* the blocks of the text that have a C/O date, in document order
DatedBlocks == SelectSeq(arg, LAMBDA b : b.date # "")

\* the description of the block has the words ceiling increased from 1.2 CR
\* to 1.5 CR
HasCeilingExample(b) ==
  /\ b.sep
  /\ \E i \in 1..(Len(b.phrases) - 1) :
       b.phrases[i] = CeilingPhrase /\ b.phrases[i+1] = FromToPhrase

\* C20: the Amendment Type of every change order is Validity Extension when
\* its description has validity-extended phrasing, whatever else it
\* mentions, else Ceiling Value Change when it mentions ceiling, increase or
\* value, else Amendment; a description with ceiling increased from 1.2 CR
\* to 1.5 CR and no validity-extended phrasing is a Ceiling Value Change,
\* and its Ceiling Change is 1.5 CR.
C20_AmendmentType ==
  pc = "co_done" =>
    /\ Len(ret) = Len(DatedBlocks)
    /\ \A i \in DOMAIN ret :
         LET b   == DatedBlocks[i]
             ext == b.sep /\ \E k \in DOMAIN b.phrases : b.phrases[k].ext
             cei == b.sep /\ \E k \in DOMAIN b.phrases : b.phrases[k].ceil
         IN  /\ ret[i].AmendmentType
                  \in {"Validity Extension", "Ceiling Value Change", "Amendment"}
             /\ ext => ret[i].AmendmentType = "Validity Extension"
             /\ ~ext /\ cei => ret[i].AmendmentType = "Ceiling Value Change"
             /\ ~ext /\ ~cei => ret[i].AmendmentType = "Amendment"
             /\ HasCeilingExample(b) => ret[i].CeilingChange = "1.5 CR"
             /\ HasCeilingExample(b) /\ ~ext
                  => ret[i].AmendmentType = "Ceiling Value Change"

\* a note whose description extends the validity and raises the ceiling from
\* 1.2 CR to 1.5 CR, followed by a second note
C20_Witness ==
  /\ pc = "co_done"
  /\ Len(ret) = 2
  /\ ret[1].Description
       = "validity extended till 31.03.2026 ceiling increased from 1.2 CR to 1.5 CR"
  /\ ret[1].AmendmentType = "Validity Extension"
  /\ ret[1].CeilingChange = "1.5 CR"
  /\ ret[2].AmendmentType = "Validity Extension"

\* C21: every text block is capped on every extraction path: Scope of Work
\* and Exit Clause have at most 2000 characters, Payment Terms Detail at
\* most 1500 and Safety Norms at most 3000.
C21_LengthCaps ==
  pc = "blocks_done" =>
    /\ ret["Scope of Work"] <= ScopeCap
    /\ ret["Exit Clause"] <= ExitCap
    /\ ret["Payment Terms Detail"] <= PaymentCap
    /\ ret["Safety Norms"] <= SafetyCap

\* what page 1 of the file resolves to: nothing when it has no text
Page1Headers(f) == IF f.page1 THEN f.doc.two_col ELSE NoDict

\* C22: in a sequential batch, whenever _extract_header runs for a document
\* it reads from get_two_col_headers() the fields resolved from page 1 of
\* that document, or nothing when its page 1 has no text: never what an
\* earlier document left, whether that one succeeded, failed part-way or
\* had its text extracted a second time for the LLM step.
C22_SlotPerDocument ==
  /\ pc \in {"seq_header", "seq_llm"} =>
       _last_two_col_headers = Page1Headers(CurFile)
  /\ pc \in {"seq_next", "seq_reset", "seq_page1", "seq_header", "seq_llm", "seq_done"} =>
       \A i \in DOMAIN attempts :
         attempts[i].ran => attempts[i].read = Page1Headers(folder[i])

\* after b.pdf, d.pdf reads its own Order Number and has its text extracted
\* a second time for the LLM step; then c.pdf, whose page 1 has no text,
\* reads nothing
C22_Witness ==
  /\ pc = "seq_done"
  /\ Len(attempts) = 3
  /\ attempts[1].name = "b.pdf" /\ attempts[1].ran
  /\ attempts[2].name = "d.pdf" /\ attempts[2].ran
  /\ attempts[2].read["Order Number"] = "T"
  /\ attempts[3].name = "c.pdf" /\ attempts[3].ran
  /\ attempts[3].read = NoDict
  /\ _last_two_col_headers = NoDict

\* the Exit Clause of a record
ExitClause(rec) == rec["text_blocks"].d["Exit Clause"]

\* C23: the text_blocks of the rule record always have the key Exit Clause
\* with a non-empty value, the sentinel Not found when none of the three
\* patterns matches; so in every record after the merge with the answer of
\* the LLM the Exit Clause is the rule value, and the Exit Clause of the LLM
\* never appears, even when the rule value is the sentinel.
C23_ExitClauseSentinel ==
  /\ rule # NoRecord =>
       /\ ExitClause(rule) \notin {Absent, ""}
       /\ (\A i \in 1..3 : pdf.find[ExitPatterns[i]] = "")
            => ExitClause(rule) = "Not found"
       /\ (\E i \in 1..3 : pdf.find[ExitPatterns[i]] # "")
            => \E i \in 1..3 : ExitClause(rule) = ExitCaptures[i]
       /\ ExitClause(data) = ExitClause(rule)
       /\ ExitClause(data) # "L"
  /\ rendered # NoRecord => ExitClause(rendered) = ExitClause(rule)

\* none of the three patterns matches, the LLM answers with an Exit Clause
\* and the record written to the spreadsheet has the sentinel
C23_Witness ==
  /\ pc = "done"
  /\ \A i \in 1..3 : pdf.find[ExitPatterns[i]] = ""
  /\ llm.status = "parsed"
  /\ llm.out.secs["text_blocks"].kind = "dict"
  /\ llm.out.secs["text_blocks"].d["Exit Clause"] = "L"
  /\ llm.out.secs["text_blocks"].d[UnknownKey] = "L"
  /\ ExitClause(rule) = "Not found"
  /\ ExitClause(rendered) = "Not found"
  /\ rendered["text_blocks"].d[UnknownKey] = "L"

====
